---- MODULE Spec2Model ----
(***************************************************************************)
(* A model of kickoff's skeleton resolution, composition and               *)
(* materialization engine: the repository reference parser, the            *)
(* process-wide repository cache and the `project create` command.         *)
(*                                                                         *)
(* Strings are sequences of one-character strings, so that parsing,        *)
(* escaping and joining are computed character by character as the Go      *)
(* standard library computes them.                                         *)
(***************************************************************************)
EXTENDS Integers, Sequences, FiniteSets, TLC

\* ------------------------------------------------------------------------
\* strings
\* ------------------------------------------------------------------------

Nil == <<>>

HasPrefix(s, p) == Len(s) >= Len(p) /\ SubSeq(s, 1, Len(p)) = p

HasSuffix(s, p) == Len(s) >= Len(p) /\ SubSeq(s, Len(s) - Len(p) + 1, Len(s)) = p

Contains(s, c) == \E i \in 1..Len(s) : s[i] = c

Count(s, c) == Cardinality({i \in 1..Len(s) : s[i] = c})

\* strings.IndexByte, 1-based; 0 when c does not occur
Index(s, c) ==
  IF Contains(s, c)
  THEN CHOOSE i \in 1..Len(s) : s[i] = c /\ \A j \in 1..(i - 1) : s[j] # c
  ELSE 0

\* strings.LastIndexByte, 1-based; 0 when c does not occur
LastIndex(s, c) ==
  IF Contains(s, c)
  THEN CHOOSE i \in 1..Len(s) : s[i] = c /\ \A j \in (i + 1)..Len(s) : s[j] # c
  ELSE 0

\* strings.Cut(s, c): the text before and after the first c
CutBefore(s, c) == IF Contains(s, c) THEN SubSeq(s, 1, Index(s, c) - 1) ELSE s

CutAfter(s, c) == IF Contains(s, c) THEN SubSeq(s, Index(s, c) + 1, Len(s)) ELSE <<>>

\* the printable ASCII characters, codes 32..126 (the double quote, the
\* backslash and the backquote are written by name)
Ascii ==
  << " ", "!", "dquote", "#", "$", "%", "&", "'", "(", ")", "*", "+", ",", "-", ".", "/",
     "0", "1", "2", "3", "4", "5", "6", "7", "8", "9", ":", ";", "<", "=", ">", "?",
     "@", "A", "B", "C", "D", "E", "F", "G", "H", "I", "J", "K", "L", "M", "N", "O",
     "P", "Q", "R", "S", "T", "U", "V", "W", "X", "Y", "Z", "[", "bslash", "]", "^", "_",
     "bquote", "a", "b", "c", "d", "e", "f", "g", "h", "i", "j", "k", "l", "m", "n", "o",
     "p", "q", "r", "s", "t", "u", "v", "w", "x", "y", "z", "{", "|", "}", "~" >>

AsciiBase == 31

AsciiSet == {Ascii[n] : n \in 1..Len(Ascii)}

OrdOf == [c \in AsciiSet |-> AsciiBase + (CHOOSE n \in 1..Len(Ascii) : Ascii[n] = c)]

Ord(c) == OrdOf[c]

\* a byte outside the printable range is kept as one opaque character
Chr(n) == IF n - AsciiBase \in 1..Len(Ascii) THEN Ascii[n - AsciiBase] ELSE "byte"

LowerLetters == {c \in AsciiSet : OrdOf[c] \in OrdOf["a"]..OrdOf["z"]}

UpperLetters == {c \in AsciiSet : OrdOf[c] \in OrdOf["A"]..OrdOf["Z"]}

DigitChars == {c \in AsciiSet : OrdOf[c] \in OrdOf["0"]..OrdOf["9"]}

HexChars ==
  DigitChars \cup {c \in AsciiSet : OrdOf[c] \in OrdOf["a"]..OrdOf["f"]}
             \cup {c \in AsciiSet : OrdOf[c] \in OrdOf["A"]..OrdOf["F"]}

IsLowerLetter(c) == c \in LowerLetters

IsUpperLetter(c) == c \in UpperLetters

IsDigit(c) == c \in DigitChars

IsAlnum(c) == IsLowerLetter(c) \/ IsUpperLetter(c) \/ IsDigit(c)

ToLowerChar(c) == IF IsUpperLetter(c) THEN Chr(Ord(c) - Ord("A") + Ord("a")) ELSE c

ToLower(s) == [i \in 1..Len(s) |-> ToLowerChar(s[i])]

\* ------------------------------------------------------------------------
\* net/url: escaping
\* ------------------------------------------------------------------------

HexDigits == <<"0", "1", "2", "3", "4", "5", "6", "7", "8", "9", "A", "B", "C", "D", "E", "F">>

ishex(c) == c \in HexChars

unhex(c) ==
  IF IsDigit(c) THEN Ord(c) - Ord("0")
  ELSE IF IsLowerLetter(c) THEN Ord(c) - Ord("a") + 10
  ELSE Ord(c) - Ord("A") + 10

shouldEscape(c, mode) ==
  IF IsAlnum(c) THEN FALSE
  ELSE IF mode \in {"encodeHost", "encodeZone"}
          /\ c \in {"!", "$", "&", "'", "(", ")", "*", "+", ",", ";", "=", ":", "[", "]", "<", ">", "dquote"}
  THEN FALSE
  ELSE IF c \in {"-", "_", ".", "~"} THEN FALSE
  ELSE IF c \in {"$", "&", "+", ",", "/", ":", ";", "=", "?", "@"}
          /\ mode \in {"encodePath", "encodePathSegment", "encodeUserPassword",
                       "encodeQueryComponent", "encodeFragment"}
  THEN CASE mode = "encodePath" -> c = "?"
         [] mode = "encodePathSegment" -> c \in {"/", ";", ",", "?"}
         [] mode = "encodeUserPassword" -> c \in {"@", "/", "?", ":"}
         [] mode = "encodeQueryComponent" -> TRUE
         [] mode = "encodeFragment" -> FALSE
  ELSE IF mode = "encodeFragment" /\ c \in {"!", "(", ")", "*"} THEN FALSE
  ELSE TRUE

RECURSIVE escapeFrom(_, _, _)
escapeFrom(s, i, mode) ==
  IF i > Len(s) THEN <<>>
  ELSE LET c == s[i] IN
       (IF shouldEscape(c, mode)
        THEN IF c = " " /\ mode = "encodeQueryComponent" THEN <<"+">>
             ELSE <<"%", HexDigits[(Ord(c) \div 16) + 1], HexDigits[(Ord(c) % 16) + 1]>>
        ELSE <<c>>)
       \o escapeFrom(s, i + 1, mode)

escape(s, mode) == escapeFrom(s, 1, mode)

\* the first malformed or forbidden character of s, as unescape's first loop
\* finds it: "" when s is well-formed
RECURSIVE unescapeCheck(_, _, _)
unescapeCheck(s, i, mode) ==
  IF i > Len(s) THEN ""
  ELSE IF s[i] = "%"
  THEN IF i + 2 > Len(s) \/ ~ishex(s[i + 1]) \/ ~ishex(s[i + 2])
       THEN "invalid URL escape"
       ELSE IF mode = "encodeHost" /\ unhex(s[i + 1]) < 8
               /\ SubSeq(s, i, i + 2) # <<"%", "2", "5">>
       THEN "invalid URL escape"
       ELSE IF mode = "encodeZone"
               /\ 16 * unhex(s[i + 1]) + unhex(s[i + 2]) < 128
               /\ SubSeq(s, i, i + 2) # <<"%", "2", "5">>
               /\ shouldEscape(Chr(16 * unhex(s[i + 1]) + unhex(s[i + 2])), "encodeHost")
       THEN "invalid URL escape"
       ELSE unescapeCheck(s, i + 3, mode)
  ELSE IF s[i] # "+" /\ mode \in {"encodeHost", "encodeZone"} /\ shouldEscape(s[i], "encodeHost")
  THEN "invalid character in host name"
  ELSE unescapeCheck(s, i + 1, mode)

RECURSIVE unescapeFrom(_, _, _)
unescapeFrom(s, i, mode) ==
  IF i > Len(s) THEN <<>>
  ELSE IF s[i] = "%"
  THEN <<Chr(16 * unhex(s[i + 1]) + unhex(s[i + 2]))>> \o unescapeFrom(s, i + 3, mode)
  ELSE IF s[i] = "+" /\ mode = "encodeQueryComponent"
  THEN <<" ">> \o unescapeFrom(s, i + 1, mode)
  ELSE <<s[i]>> \o unescapeFrom(s, i + 1, mode)

unescape(s, mode) ==
  LET e == unescapeCheck(s, 1, mode) IN
  IF e # "" THEN [err |-> e, val |-> <<>>]
  ELSE [err |-> "", val |-> unescapeFrom(s, 1, mode)]

validEncoded(s, mode) ==
  \A i \in 1..Len(s) :
    \/ s[i] \in {"!", "$", "&", "'", "(", ")", "*", "+", ",", ";", "=", ":", "@", "[", "]", "%"}
    \/ ~shouldEscape(s[i], mode)

PathEscape(s) == escape(s, "encodePathSegment")

QueryUnescape(s) == unescape(s, "encodeQueryComponent")

\* ------------------------------------------------------------------------
\* net/url: Parse, URL.String, ParseQuery
\* ------------------------------------------------------------------------

\* the first character at which getScheme's loop stops, 0 when it runs to the end
schemeStop(s) ==
  LET stops(i) == ~(IsLowerLetter(s[i]) \/ IsUpperLetter(s[i]))
                  /\ ~(i > 1 /\ (IsDigit(s[i]) \/ s[i] \in {"+", "-", "."}))
  IN IF \E i \in 1..Len(s) : stops(i)
     THEN CHOOSE i \in 1..Len(s) : stops(i) /\ \A j \in 1..(i - 1) : ~stops(j)
     ELSE 0

getScheme(rawURL) ==
  LET k == schemeStop(rawURL) IN
  IF k = 0 \/ rawURL[k] # ":" THEN [err |-> "", scheme |-> <<>>, rest |-> rawURL]
  ELSE IF k = 1 THEN [err |-> "missing protocol scheme", scheme |-> <<>>, rest |-> <<>>]
  ELSE [err |-> "", scheme |-> SubSeq(rawURL, 1, k - 1),
        rest |-> SubSeq(rawURL, k + 1, Len(rawURL))]

validOptionalPort(port) ==
  \/ port = <<>>
  \/ port[1] = ":" /\ \A i \in 2..Len(port) : IsDigit(port[i])

\* hosts in brackets (IPv6 literals) carry no zone in the locators considered
parseHost(host) ==
  IF HasPrefix(host, <<"[">>)
  THEN IF ~Contains(host, "]") THEN [err |-> "missing ']' in host", val |-> <<>>]
       ELSE IF ~validOptionalPort(SubSeq(host, LastIndex(host, "]") + 1, Len(host)))
       THEN [err |-> "invalid port after host", val |-> <<>>]
       ELSE unescape(host, "encodeHost")
  ELSE IF Contains(host, ":")
          /\ ~validOptionalPort(SubSeq(host, LastIndex(host, ":"), Len(host)))
  THEN [err |-> "invalid port after host", val |-> <<>>]
  ELSE unescape(host, "encodeHost")

validUserinfo(s) ==
  \A i \in 1..Len(s) :
    \/ IsAlnum(s[i])
    \/ s[i] \in {"-", ".", "_", ":", "~", "!", "$", "&", "'", "(", ")", "*", "+", ",", ";", "=", "%", "@"}

NoUser == [set |-> FALSE, username |-> <<>>, password |-> <<>>, passwordSet |-> FALSE]

\* parseAuthority once the host is parsed: i is the place of the last @
authorityOf(authority, i, h, name, pass) ==
  IF h.err # "" THEN [err |-> h.err, user |-> NoUser, host |-> <<>>]
  ELSE IF i = 0 THEN [err |-> "", user |-> NoUser, host |-> h.val]
  ELSE IF ~validUserinfo(SubSeq(authority, 1, i - 1))
  THEN [err |-> "net/url: invalid userinfo", user |-> NoUser, host |-> <<>>]
  ELSE IF name.err # "" THEN [err |-> name.err, user |-> NoUser, host |-> <<>>]
  ELSE IF Contains(SubSeq(authority, 1, i - 1), ":") /\ pass.err # ""
  THEN [err |-> pass.err, user |-> NoUser, host |-> <<>>]
  ELSE [err |-> "",
        user |-> [set |-> TRUE, username |-> name.val,
                  password |-> pass.val,
                  passwordSet |-> Contains(SubSeq(authority, 1, i - 1), ":")],
        host |-> h.val]

userinfoAt(authority, i) ==
  authorityOf(authority, i,
              parseHost(SubSeq(authority, i + 1, Len(authority))),
              unescape(CutBefore(SubSeq(authority, 1, i - 1), ":"), "encodeUserPassword"),
              unescape(CutAfter(SubSeq(authority, 1, i - 1), ":"), "encodeUserPassword"))

parseAuthority(authority) == userinfoAt(authority, LastIndex(authority, "@"))

EmptyURL ==
  [Scheme |-> <<>>, Opaque |-> <<>>, User |-> NoUser, Host |-> <<>>, Path |-> <<>>,
   RawPath |-> <<>>, OmitHost |-> FALSE, ForceQuery |-> FALSE, RawQuery |-> <<>>,
   Fragment |-> <<>>, RawFragment |-> <<>>]

\* URL.setPath
setPathTo(u, p, path) ==
  IF path.err # "" THEN [err |-> path.err, u |-> u]
  ELSE [err |-> "",
        u |-> [u EXCEPT !.Path = path.val,
                        !.RawPath = IF p = escape(path.val, "encodePath") THEN <<>> ELSE p]]

setPath(u, p) == setPathTo(u, p, unescape(p, "encodePath"))

\* URL.setFragment
setFragmentTo(u, f, frag) ==
  IF frag.err # "" THEN [err |-> frag.err, u |-> u]
  ELSE [err |-> "",
        u |-> [u EXCEPT !.Fragment = frag.val,
                        !.RawFragment = IF f = escape(frag.val, "encodeFragment") THEN <<>> ELSE f]]

setFragment(u, f) == setFragmentTo(u, f, unescape(f, "encodeFragment"))

\* parse, once the authority is parsed: the user and the host, then the path
parseAfterAuthority(u, auth, rest) ==
  IF auth.err # "" THEN [err |-> auth.err, u |-> EmptyURL]
  ELSE setPath([u EXCEPT !.User = auth.user, !.Host = auth.host], rest)

\* parse, after the two slashes that start an authority
parseFromAuthority(u, rest) ==
  parseAfterAuthority(u, parseAuthority(CutBefore(rest, "/")),
                      IF Contains(rest, "/") THEN SubSeq(rest, Index(rest, "/"), Len(rest)) ELSE <<>>)

\* parse, once the scheme and the query string are split off
parseFromRest(u, rest) ==
  IF ~HasPrefix(rest, <<"/">>) /\ u.Scheme # <<>>
  THEN [err |-> "", u |-> [u EXCEPT !.Opaque = rest]]
  ELSE IF ~HasPrefix(rest, <<"/">>) /\ Contains(CutBefore(rest, "/"), ":")
  THEN [err |-> "first path segment in URL cannot contain colon", u |-> EmptyURL]
  ELSE IF (u.Scheme # <<>> \/ ~HasPrefix(rest, <<"/", "/", "/">>)) /\ HasPrefix(rest, <<"/", "/">>)
  THEN parseFromAuthority(u, SubSeq(rest, 3, Len(rest)))
  ELSE IF u.Scheme # <<>> /\ HasPrefix(rest, <<"/">>)
  THEN setPath([u EXCEPT !.OmitHost = TRUE], rest)
  ELSE setPath(u, rest)

\* parse, once the scheme is split off
parseFromScheme(sch) ==
  IF sch.err # "" THEN [err |-> sch.err, u |-> EmptyURL]
  ELSE IF HasSuffix(sch.rest, <<"?">>) /\ Count(sch.rest, "?") = 1
  THEN parseFromRest([EmptyURL EXCEPT !.Scheme = ToLower(sch.scheme), !.ForceQuery = TRUE],
                     SubSeq(sch.rest, 1, Len(sch.rest) - 1))
  ELSE parseFromRest([EmptyURL EXCEPT !.Scheme = ToLower(sch.scheme),
                                      !.RawQuery = CutAfter(sch.rest, "?")],
                     CutBefore(sch.rest, "?"))

\* net/url.parse(rawURL, viaRequest = false)
parse(rawURL) ==
  IF rawURL = <<"*">> THEN [err |-> "", u |-> [EmptyURL EXCEPT !.Path = <<"*">>]]
  ELSE parseFromScheme(getScheme(rawURL))

\* Parse, once the text before the fragment is parsed
parseFragment(r, frag) ==
  IF r.err # "" THEN [err |-> r.err, u |-> EmptyURL]
  ELSE IF frag = <<>> THEN r
  ELSE setFragment(r.u, frag)

\* net/url.Parse
Parse(rawURL) == parseFragment(parse(CutBefore(rawURL, "#")), CutAfter(rawURL, "#"))

\* URL.EscapedPath
EscapedPath(u) ==
  IF u.RawPath # <<>> /\ validEncoded(u.RawPath, "encodePath")
     /\ unescape(u.RawPath, "encodePath") = [err |-> "", val |-> u.Path]
  THEN u.RawPath
  ELSE IF u.Path = <<"*">> THEN <<"*">>
  ELSE escape(u.Path, "encodePath")

\* URL.EscapedFragment
EscapedFragment(u) ==
  IF u.RawFragment # <<>> /\ validEncoded(u.RawFragment, "encodeFragment")
     /\ unescape(u.RawFragment, "encodeFragment") = [err |-> "", val |-> u.Fragment]
  THEN u.RawFragment
  ELSE escape(u.Fragment, "encodeFragment")

\* Userinfo.String
UserinfoString(user) ==
  escape(user.username, "encodeUserPassword")
  \o (IF user.passwordSet THEN <<":">> \o escape(user.password, "encodeUserPassword") ELSE <<>>)

\* URL.String, once the scheme, the authority and the path are written
urlStringOf(u, head, auth, path) ==
  head
  \o (IF u.Opaque # <<>> THEN u.Opaque
      ELSE auth
           \o (IF path # <<>> /\ path[1] # "/" /\ u.Host # <<>> THEN <<"/">> ELSE <<>>)
           \o (IF head = <<>> /\ auth = <<>> /\ Contains(CutBefore(path, "/"), ":")
               THEN <<".", "/">> ELSE <<>>)
           \o path)
  \o (IF u.ForceQuery \/ u.RawQuery # <<>> THEN <<"?">> \o u.RawQuery ELSE <<>>)
  \o (IF u.Fragment # <<>> THEN <<"#">> \o EscapedFragment(u) ELSE <<>>)

\* URL.String
URLString(u) ==
  urlStringOf(u,
    IF u.Scheme # <<>> THEN u.Scheme \o <<":">> ELSE <<>>,
    IF (u.Scheme # <<>> \/ u.Host # <<>> \/ u.User.set)
       /\ ~(u.OmitHost /\ u.Host = <<>> /\ ~u.User.set)
    THEN (IF u.Host # <<>> \/ u.Path # <<>> \/ u.User.set THEN <<"/", "/">> ELSE <<>>)
         \o (IF u.User.set THEN UserinfoString(u.User) \o <<"@">> ELSE <<>>)
         \o escape(u.Host, "encodeHost")
    ELSE <<>>,
    EscapedPath(u))

\* parseQuery's loop body for one piece between ampersands; more is what the
\* rest of the query parses to
queryPiece(piece, key, value, more) ==
  IF Contains(piece, ";")
  THEN [err |-> "invalid semicolon separator in query", pairs |-> more.pairs]
  ELSE IF piece = <<>> THEN more
  ELSE IF key.err # "" THEN [err |-> key.err, pairs |-> more.pairs]
  ELSE IF value.err # "" THEN [err |-> value.err, pairs |-> more.pairs]
  ELSE [err |-> more.err, pairs |-> <<<<key.val, value.val>>>> \o more.pairs]

\* net/url.parseQuery: the (key, value) pairs in the order they are appended
\* to the Values map, and the first error met
RECURSIVE parseQuery(_)
parseQuery(query) ==
  IF query = <<>> THEN [err |-> "", pairs |-> <<>>]
  ELSE queryPiece(CutBefore(query, "&"),
                  QueryUnescape(CutBefore(CutBefore(query, "&"), "=")),
                  QueryUnescape(CutAfter(CutBefore(query, "&"), "=")),
                  parseQuery(CutAfter(query, "&")))

ParseQuery(query) == parseQuery(query)

\* Values[key]: the values appended under key, in order
QueryValues(pairs, key) ==
  LET hits == SelectSeq(pairs, LAMBDA p : p[1] = key)
  IN [i \in 1..Len(hits) |-> hits[i][2]]

\* ------------------------------------------------------------------------
\* path/filepath (Unix): Clean and Join
\* ------------------------------------------------------------------------

\* the elements of path between slashes, empty ones included
RECURSIVE Split(_, _)
Split(s, c) ==
  IF ~Contains(s, c) THEN <<s>>
  ELSE <<CutBefore(s, c)>> \o Split(CutAfter(s, c), c)

\* Clean's element loop: out is the list of elements kept so far
RECURSIVE cleanElems(_, _, _, _)
cleanElems(elems, i, rooted, out) ==
  IF i > Len(elems) THEN out
  ELSE IF elems[i] = <<>> \/ elems[i] = <<".">> THEN cleanElems(elems, i + 1, rooted, out)
  ELSE IF elems[i] = <<".", ".">>
  THEN IF Len(out) > 0 /\ out[Len(out)] # <<".", ".">>
       THEN cleanElems(elems, i + 1, rooted, SubSeq(out, 1, Len(out) - 1))
       ELSE IF rooted THEN cleanElems(elems, i + 1, rooted, out)
       ELSE cleanElems(elems, i + 1, rooted, Append(out, elems[i]))
  ELSE cleanElems(elems, i + 1, rooted, Append(out, elems[i]))

RECURSIVE joinElems(_, _)
joinElems(elems, sep) ==
  IF elems = <<>> THEN <<>>
  ELSE IF Len(elems) = 1 THEN elems[1]
  ELSE elems[1] \o sep \o joinElems(Tail(elems), sep)

Clean(path) ==
  LET rooted == HasPrefix(path, <<"/">>)
      out    == joinElems(cleanElems(Split(path, "/"), 1, rooted, <<>>), <<"/">>)
  IN IF path = <<>> THEN <<".">>
     ELSE IF rooted THEN <<"/">> \o out
     ELSE IF out = <<>> THEN <<".">>
     ELSE out

\* filepath.Join: empty elements are ignored, the result is cleaned
Join(elems) ==
  LET nonEmpty == SelectSeq(elems, LAMBDA e : e # <<>>)
  IN IF nonEmpty = <<>> THEN <<>> ELSE Clean(joinElems(nonEmpty, <<"/">>))

\* ------------------------------------------------------------------------
\* state
\* ------------------------------------------------------------------------

VARIABLES
  home,        \* the user's home directory, Nil when it cannot be determined
  locator,     \* the parts the locator handed to the parsers is written from
  parseResult, \* what the parsers returned for it: [url, ref], or Nil before the call
  strResult,   \* what ParseRepoRef returned for parseResult.ref.String(), or Nil
  repoCache,   \* the process-wide repository cache: cacheKey -> repository instance
  repos,       \* the repository instances constructed so far, in order of construction
  calls,       \* the NewNamed calls made so far, each with what it did and returned
  args,        \* the flags and arguments of the invocation of a command
  opts,        \* the CreateOptions of the invocation, as Complete left them
  pc,          \* where the invocation stands: "start", "completed", "validated" or "done"
  fs,          \* the real filesystem: under the project directory for `project
               \* create`, from the root for `repository create`
  gitInits,    \* how often GitClient.Init was invoked
  outcome,     \* what the invocation returned and what it went through, or Nil
  earlier,     \* the invocations that finished before this one, in order
  configFile,  \* `repository create`: the configuration file, and how often it was written
  procs,       \* concurrent NewNamed calls: where each caller stands and what it holds
  configs      \* a Config as it was decoded, and as each ApplyDefaults left it

\* ------------------------------------------------------------------------
\* kickoff.RepoRef, ParseRepoRef and repository.ParseURL
\* ------------------------------------------------------------------------

\* configdir.LocalCache("kickoff", "repositories")
LocalCache == <<"/", "c", "a", "c", "h", "e">>

LocalRepositoryCacheDir == LocalCache

\* the home directory of the user, when it is known
HomeDir == <<"/", "r">>

\* homedir.Expand: a leading ~ (alone or followed by a slash) stands for the
\* home directory
Expand(path) ==
  IF path # <<>> /\ path[1] = "~" /\ (Len(path) = 1 \/ path[2] = "/")
  THEN IF home = Nil THEN [err |-> "cannot determine home directory", val |-> <<>>]
       ELSE [err |-> "", val |-> Join(<<home, Tail(path)>>)]
  ELSE [err |-> "", val |-> path]

EmptyRef == [Name |-> <<>>, URL |-> <<>>, Path |-> <<>>, Revision |-> <<>>]

IsRemote(r) == r.URL # <<>>

IsEmpty(r) == r.URL = <<>> /\ r.Path = <<>>

\* RepoRef.String
RepoRefString(r) ==
  IF r.URL = <<>> THEN r.Path
  ELSE IF r.Revision = <<>> THEN r.URL
  ELSE r.URL \o <<"?", "r", "e", "v", "i", "s", "i", "o", "n", "=">> \o r.Revision

RevisionKey == <<"r", "e", "v", "i", "s", "i", "o", "n">>

Master == <<"m", "a", "s", "t", "e", "r">>

revisionOf_Last(pairs) ==
  LET rev == QueryValues(pairs, RevisionKey) IN
  IF Len(rev) > 0 /\ rev[Len(rev)] # <<>> THEN rev[Len(rev)] ELSE Master

\* the revision both parsers take from the parsed query
revisionOf(pairs) ==
  LET rev == QueryValues(pairs, RevisionKey) IN
  IF Len(rev) > 0 /\ rev[1] # <<>> THEN rev[1] ELSE Master

buildLocalCacheDir_PerCall(host, path, revision) ==
  Join(<<LocalCache, host, path \o <<"@">> \o PathEscape(revision),
         IF calls = <<>> THEN <<>> ELSE <<"1">>>>)

\* repository.buildLocalCacheDir
buildLocalCacheDir(host, path, revision) ==
  Join(<<LocalCache, host, path \o <<"@">> \o PathEscape(revision)>>)

\* kickoff.buildLocalCacheDir
kickoffBuildLocalCacheDir(host, path, revision) ==
  Join(<<LocalRepositoryCacheDir, host, path \o <<"@">> \o PathEscape(revision)>>)

remoteRef_QueryIgnored(u, query, cacheDir) ==
  [err |-> "",
   ref |-> [EmptyRef EXCEPT !.Path = cacheDir,
                            !.URL = URLString([u EXCEPT !.RawQuery = <<>>]),
                            !.Revision = revisionOf(query.pairs)]]

\* the reference of a remote locator
remoteRef(u, query, cacheDir) ==
  IF query.err # "" THEN [err |-> "invalid URL query", ref |-> EmptyRef]
  ELSE [err |-> "",
        ref |-> [EmptyRef EXCEPT !.Path = cacheDir,
                                 !.URL = URLString([u EXCEPT !.RawQuery = <<>>]),
                                 !.Revision = revisionOf(query.pairs)]]

\* the reference of a local path
localRef(path) ==
  IF path.err # "" THEN [err |-> path.err, ref |-> EmptyRef]
  ELSE [err |-> "", ref |-> [EmptyRef EXCEPT !.Path = path.val]]

\* ParseURL, once url.Parse has returned p and the query is parsed
parseURLOf(p, query) ==
  IF p.err # "" THEN [err |-> "invalid repo URL", ref |-> EmptyRef]
  ELSE IF p.u.Host = <<>> THEN localRef(Expand(p.u.Path))
  ELSE remoteRef(p.u, query, buildLocalCacheDir(p.u.Host, p.u.Path, revisionOf(query.pairs)))

parseURLFrom(p) == parseURLOf(p, ParseQuery(p.u.RawQuery))

\* repository.ParseURL
ParseURL(raw) == parseURLFrom(Parse(raw))

\* ParseRepoRef, once url.Parse has returned p and the query is parsed
parseRepoRefOf(p, query) ==
  IF p.err # "" THEN [err |-> "invalid repo URL", ref |-> EmptyRef]
  ELSE IF p.u.Host = <<>> THEN localRef(Expand(p.u.Path))
  ELSE remoteRef(p.u, query,
                 kickoffBuildLocalCacheDir(p.u.Host, p.u.Path, revisionOf(query.pairs)))

parseRepoRefFrom(p) == parseRepoRefOf(p, ParseQuery(p.u.RawQuery))

\* kickoff.ParseRepoRef
ParseRepoRef(raw) == parseRepoRefFrom(Parse(raw))

\* ------------------------------------------------------------------------
\* locators
\* ------------------------------------------------------------------------

\* at most this many parameters in a locator's query string
MaxParams == 2

Schemes == {<<>>, <<"g">>}

Users == {<<>>, <<"u">>}

Hosts == {<<>>, <<"h">>}

Paths ==
  { <<>>, <<"/", "a">>, <<"/", "a", "/", "b">>, <<"/", "a", "/", "/", "b">>,
    <<"/", "a", "@", "x">>, <<"/", "a", "/", ".", ".", "/", "b">>,
    <<"~">>, <<"~", "/", "a">>, <<"~", "x">>, <<"a">>, <<"a", ":", "b">>,
    <<"/", "a", "%", "2", "F", "b">>, <<"/", "%", "z", "z">> }

Fragments == {<<>>, <<"f">>}

\* a query parameter as written (raw) and as it reads once decoded (key, val);
\* ok is FALSE for a parameter that is not well-formed
Params ==
  { [raw |-> RevisionKey \o <<"=", "v">>, key |-> RevisionKey, val |-> <<"v">>, ok |-> TRUE],
    [raw |-> RevisionKey \o <<"=">>, key |-> RevisionKey, val |-> <<>>, ok |-> TRUE],
    [raw |-> RevisionKey, key |-> RevisionKey, val |-> <<>>, ok |-> TRUE],
    [raw |-> RevisionKey \o <<"=", "x", "@", "v">>, key |-> RevisionKey,
     val |-> <<"x", "@", "v">>, ok |-> TRUE],
    [raw |-> RevisionKey \o <<"=">> \o Master, key |-> RevisionKey, val |-> Master, ok |-> TRUE],
    [raw |-> RevisionKey \o <<"=", "a", "%", "2", "6", "b">>, key |-> RevisionKey,
     val |-> <<"a", "&", "b">>, ok |-> TRUE],
    [raw |-> RevisionKey \o <<"=", "a", "+", "b">>, key |-> RevisionKey,
     val |-> <<"a", " ", "b">>, ok |-> TRUE],
    [raw |-> <<"x", "=", "y">>, key |-> <<"x">>, val |-> <<"y">>, ok |-> TRUE],
    [raw |-> RevisionKey \o <<"=", "%", "z", "z">>, key |-> RevisionKey, val |-> <<>>, ok |-> FALSE] }

\* the sequences of at most n parameters
RECURSIVE ParamSeqs(_)
ParamSeqs(n) ==
  IF n = 0 THEN {<<>>}
  ELSE ParamSeqs(n - 1)
       \cup {Append(q, x) : q \in {r \in ParamSeqs(n - 1) : Len(r) = n - 1}, x \in Params}

\* a locator's parts; query is FALSE when the locator has no question mark
LocatorOf(sch, user, host, path, query, params, frag) ==
  [scheme |-> sch, user |-> user, host |-> host, path |-> path,
   query |-> query, params |-> params, fragment |-> frag]

\* locators of every shape, with a short query
ShapeLocators ==
  { LocatorOf(sch, user, host, path, q[1], q[2], frag) :
      sch \in Schemes, user \in Users, host \in Hosts, path \in Paths,
      q \in {<<FALSE, <<>>>>, <<TRUE, <<>>>>}
            \cup {<<TRUE, <<x>>>> : x \in {y \in Params : y.val = <<"v">>}},
      frag \in Fragments }

\* remote locators with every query string
QueryLocators ==
  { LocatorOf(<<"g">>, <<>>, <<"h">>, path, TRUE, params, <<>>) :
      path \in {<<"/", "a">>, <<"/", "a", "@", "x">>}, params \in ParamSeqs(MaxParams) }

\* local paths followed by a query string
LocalQueryLocators ==
  { LocatorOf(<<>>, <<>>, <<>>, path, TRUE, <<x>>, <<>>) :
      path \in {<<"/", "a">>, <<"~", "/", "a">>}, x \in Params }

Locators == ShapeLocators \cup QueryLocators \cup LocalQueryLocators

RECURSIVE rawQuery(_)
rawQuery(params) ==
  IF params = <<>> THEN <<>>
  ELSE IF Len(params) = 1 THEN params[1].raw
  ELSE params[1].raw \o <<"&">> \o rawQuery(Tail(params))

\* the locator as the user writes it
RawURL(l) ==
  (IF l.scheme # <<>> THEN l.scheme \o <<":">> ELSE <<>>)
  \o (IF l.host # <<>> \/ l.user # <<>>
      THEN <<"/", "/">> \o (IF l.user # <<>> THEN l.user \o <<"@">> ELSE <<>>) \o l.host
      ELSE <<>>)
  \o l.path
  \o (IF l.query THEN <<"?">> \o rawQuery(l.params) ELSE <<>>)
  \o (IF l.fragment # <<>> THEN <<"#">> \o l.fragment ELSE <<>>)


\* ------------------------------------------------------------------------
\* repository.NewNamed and the repository cache
\* ------------------------------------------------------------------------

\* at most this many NewNamed calls in a run
MaxCalls == 3

NoRepo == 0

cacheKey(name, url) == <<name, url>>

\* repoCache.get
repoCacheGet(key) ==
  IF key \in DOMAIN repoCache THEN [ok |-> TRUE, repo |-> repoCache[key]]
  ELSE [ok |-> FALSE, repo |-> NoRepo]

\* repoCache.set
repoCacheSet(key, repo) ==
  [k \in DOMAIN repoCache \cup {key} |-> IF k = key THEN repo ELSE repoCache[k]]

\* NewRemoteRepository: the revision is fetched into the cache path (fetchOk
\* tells whether the version-control collaborator succeeds), then the
\* repository is a local one rooted there
NewRemoteRepository(info, fetchOk) ==
  [err |-> IF fetchOk THEN "" ELSE "fetch failed", fetched |-> TRUE,
   repo |-> [kind |-> "remote", info |-> info]]

\* NewLocalRepository: dirOk tells whether the path holds a repository
NewLocalRepository(info, dirOk) ==
  [err |-> IF dirOk THEN "" ELSE "not a skeleton repository", fetched |-> FALSE,
   repo |-> [kind |-> "local", info |-> info]]

newRepository_AlwaysRemote(info, ok) == NewRemoteRepository(info, ok)

\* NewNamed: the repository is constructed by the kind of its reference
newRepository(info, ok) ==
  IF IsRemote(info) THEN NewRemoteRepository(info, ok) ELSE NewLocalRepository(info, ok)

cacheWith_NotStored(key, repo) == repoCache

\* NewNamed: the cache after a repository is constructed without error
cacheWith(key, repo) == repoCacheSet(key, repo)

\* a call as the run records it
CallOf(name, l, hit, parsed, made, fetched, repo, err, info) ==
  [name |-> name, loc |-> l, hit |-> hit, parsed |-> parsed, made |-> made,
   fetched |-> fetched, repo |-> repo, err |-> err, info |-> info]

newNamedMade_FailureCached(name, l, key, info, made) ==
  /\ repos' = Append(repos, made.repo)
  /\ repoCache' = cacheWith(key, Len(repos) + 1)
  /\ calls' = Append(calls, CallOf(name, l, FALSE, TRUE, TRUE, made.fetched,
                                   IF made.err # "" THEN NoRepo ELSE Len(repos) + 1,
                                   made.err, info))

\* NewNamed once the repository constructor has returned made
newNamedMade(name, l, key, info, made) ==
  IF made.err # ""
  THEN /\ calls' = Append(calls, CallOf(name, l, FALSE, TRUE, TRUE, made.fetched, NoRepo, made.err, info))
       /\ UNCHANGED <<repoCache, repos>>
  ELSE /\ repos' = Append(repos, made.repo)
       /\ repoCache' = cacheWith(key, Len(repos) + 1)
       /\ calls' = Append(calls, CallOf(name, l, FALSE, TRUE, TRUE, made.fetched, Len(repos) + 1, "", info))

\* NewNamed once ParseURL has returned parsed
newNamedParsed(name, l, key, parsed, ok) ==
  IF parsed.err # ""
  THEN /\ calls' = Append(calls, CallOf(name, l, FALSE, TRUE, FALSE, FALSE, NoRepo, parsed.err, EmptyRef))
       /\ UNCHANGED <<repoCache, repos>>
  ELSE newNamedMade(name, l, key, [parsed.ref EXCEPT !.Name = name],
                    newRepository([parsed.ref EXCEPT !.Name = name], ok))

\* NewNamed once the cache has answered cached
newNamedLookedUp(name, l, key, cached, ok) ==
  IF cached.ok
  THEN /\ calls' = Append(calls, CallOf(name, l, TRUE, FALSE, FALSE, FALSE, cached.repo, "", repos[cached.repo].info))
       /\ UNCHANGED <<repoCache, repos>>
  ELSE newNamedParsed(name, l, key, ParseURL(RawURL(l)), ok)

\* repository.NewNamed(name, url), url being the text of l; ok is the outcome
\* of the repository constructor, should it be called
NewNamed(name, l, ok) ==
  /\ Len(calls) < MaxCalls
  /\ newNamedLookedUp(name, l, cacheKey(name, RawURL(l)), repoCacheGet(cacheKey(name, RawURL(l))), ok)
  /\ UNCHANGED <<home>>

\* repository.New(url)
New(l, ok) == NewNamed(<<>>, l, ok)

vars ==
  <<home, locator, parseResult, strResult, repoCache, repos, calls,
    args, opts, pc, fs, gitInits, outcome, earlier, configFile, procs, configs>>

\* no command is running, no concurrent callers, and no Config at hand
NoProject ==
  /\ args = Nil /\ opts = Nil /\ pc = "" /\ fs = Nil
  /\ gitInits = 0 /\ outcome = Nil /\ earlier = Nil
  /\ configFile = Nil /\ procs = Nil /\ configs = Nil

projectVars == <<args, opts, pc, fs, gitInits, outcome, earlier>>

\* ------------------------------------------------------------------------
\* A locator is parsed by both parsers, printed and parsed again, and resolved
\* ------------------------------------------------------------------------

ParseInit ==
  /\ home \in {HomeDir, Nil}
  /\ locator \in Locators
  /\ parseResult = Nil
  /\ strResult = Nil
  /\ repoCache = <<>>
  /\ repos = <<>>
  /\ calls = <<>>
  /\ NoProject

\* ParseURL and ParseRepoRef are called with the locator
CallParse ==
  /\ parseResult = Nil
  /\ parseResult' = [url |-> ParseURL(RawURL(locator)), ref |-> ParseRepoRef(RawURL(locator))]
  /\ UNCHANGED <<home, locator, strResult, repoCache, repos, calls, projectVars, configFile, procs, configs>>

\* the reference is printed with String and the text is parsed again
CallString ==
  /\ parseResult # Nil
  /\ parseResult.ref.err = ""
  /\ strResult = Nil
  /\ strResult' = ParseRepoRef(RepoRefString(parseResult.ref.ref))
  /\ UNCHANGED <<home, locator, parseResult, repoCache, repos, calls, projectVars, configFile, procs, configs>>

\* the locator is resolved once: repository.New(locator)
Resolve ==
  /\ parseResult # Nil
  /\ calls = <<>>
  /\ \E ok \in BOOLEAN : New(locator, ok)
  /\ UNCHANGED <<locator, parseResult, strResult, projectVars, configFile, procs, configs>>

ParseNext == CallParse \/ CallString \/ Resolve

SpecParse == ParseInit /\ [][ParseNext]_vars

\* ------------------------------------------------------------------------
\* Properties of the parsers
\* ------------------------------------------------------------------------

\* what the two parsers returned for the locator
Parsed == {parseResult.url, parseResult.ref}

\* the value the locator was written with for the first `revision` parameter,
\* or the empty string when it has none
FirstRevision(params) ==
  IF \E i \in 1..Len(params) : params[i].key = RevisionKey
  THEN params[CHOOSE i \in 1..Len(params) :
                /\ params[i].key = RevisionKey
                /\ \A j \in 1..(i - 1) : params[j].key # RevisionKey].val
  ELSE <<>>

\* C8: when a locator with a host is parsed without error, the Revision of
\* the reference is the first value its `revision` parameter was written with,
\* or "master" when it has no such parameter or that value is empty; it is
\* never empty.
C8_RevisionFirstOrMaster ==
  parseResult # Nil =>
    \A r \in Parsed :
      (locator.host # <<>> /\ r.err = "") =>
        /\ r.ref.Revision # <<>>
        /\ r.ref.Revision = IF FirstRevision(locator.params) = <<>> THEN Master
                            ELSE FirstRevision(locator.params)

\* two `revision` parameters with different values: the first one is taken
C8_Witness ==
  /\ parseResult # Nil
  /\ Len(locator.params) = 2
  /\ locator.params[1].key = RevisionKey /\ locator.params[2].key = RevisionKey
  /\ locator.params[1].val = <<"x", "@", "v">> /\ locator.params[2].val = <<"v">>
  /\ parseResult.url.err = "" /\ parseResult.ref.err = ""
  /\ parseResult.url.ref.Revision = <<"x", "@", "v">>
  /\ parseResult.ref.ref.Revision = <<"x", "@", "v">>

\* the path a local locator stands for once the home directory is put in
HomeExpanded(path) ==
  IF path # <<>> /\ path[1] = "~" THEN home \o Tail(path) ELSE path

\* the locator is a plain filesystem path, with at most a leading ~ or ~/
PlainPath(l) ==
  /\ l.scheme = <<>> /\ l.user = <<>> /\ l.host = <<>> /\ l.fragment = <<>> /\ ~l.query
  /\ \A i \in 1..Len(l.path) : l.path[i] \notin {":", "%"}
  /\ (Len(l.path) > 1 /\ l.path[1] = "~") => l.path[2] = "/"

\* the text of the locator has no host: no host is written, and the path
\* does not run into the authority
NoHost(l) ==
  /\ l.host = <<>>
  /\ l.user # <<>> => (l.path = <<>> \/ l.path[1] = "/")

\* C10: when a locator without a host is parsed without error the reference
\* is local: URL and Revision are empty, IsRemote is false, and for a plain
\* filesystem path Path is that path with a leading ~ replaced by the home
\* directory; resolving the locator does not invoke the fetch collaborator.
C10_LocalReference ==
  (parseResult # Nil /\ NoHost(locator)) =>
    /\ \A r \in Parsed :
         r.err = "" =>
           /\ r.ref.URL = <<>>
           /\ r.ref.Revision = <<>>
           /\ ~IsRemote(r.ref)
           /\ PlainPath(locator) => r.ref.Path = HomeExpanded(locator.path)
    /\ \A i \in 1..Len(calls) : ~calls[i].fetched

C10_Witness ==
  /\ parseResult # Nil
  /\ PlainPath(locator) /\ locator.path = <<"~", "/", "a">>
  /\ parseResult.url.err = "" /\ parseResult.ref.err = ""
  /\ parseResult.url.ref.Path = HomeDir \o <<"/", "a">>
  /\ parseResult.ref.ref.Path = HomeDir \o <<"/", "a">>
  /\ Len(calls) = 1 /\ calls[1].made /\ calls[1].err = "" /\ ~calls[1].fetched

\* the path of the locator holds a percent sign that starts no escape
BadEscape(l) ==
  \E i \in 1..Len(l.path) :
    /\ l.path[i] = "%"
    /\ \/ i + 2 > Len(l.path)
       \/ ~ishex(l.path[i + 1])
       \/ ~ishex(l.path[i + 2])

\* the query string of the locator holds a parameter that is not well-formed
MalformedQuery(l) == \E i \in 1..Len(l.params) : ~l.params[i].ok

\* the parser returned the error and no reference
FailedWith(r, err) == r.err = err /\ r.ref = EmptyRef

\* C11 as claimed: a locator that is not parseable as a URL fails with the
\* invalid-locator error, and every locator that parses as a URL and has a
\* malformed query string fails with the invalid-query error
C11_MalformedQueryFails ==
  parseResult # Nil =>
    \A r \in Parsed :
      /\ BadEscape(locator) => FailedWith(r, "invalid repo URL")
      /\ (MalformedQuery(locator) /\ r.err # "invalid repo URL")
            => FailedWith(r, "invalid URL query")

\* C11: a locator that is not parseable as a URL fails with the
\* invalid-locator error; a locator that parses as a URL, has a host and a
\* malformed query string fails with the invalid-query error; a locator
\* without a host never fails with the invalid-query error, its query string
\* is not looked at; whenever a parser fails no reference is returned.
C11_ParseErrors ==
  parseResult # Nil =>
    \A r \in Parsed :
      /\ BadEscape(locator) => FailedWith(r, "invalid repo URL")
      /\ (MalformedQuery(locator) /\ locator.host # <<>> /\ r.err # "invalid repo URL")
            => FailedWith(r, "invalid URL query")
      /\ NoHost(locator) => r.err # "invalid URL query"
      /\ r.err # "" => r.ref = EmptyRef

\* a remote locator with a malformed revision parameter after a good one
C11_Witness ==
  /\ parseResult # Nil
  /\ locator.host = <<"h">> /\ Len(locator.params) = 2
  /\ locator.params[1].ok /\ ~locator.params[2].ok
  /\ FailedWith(parseResult.url, "invalid URL query")
  /\ FailedWith(parseResult.ref, "invalid URL query")

\* ------------------------------------------------------------------------
\* Runs of NewNamed over a few locators
\* ------------------------------------------------------------------------

RemoteA == LocatorOf(<<"g">>, <<>>, <<"h">>, <<"/", "a">>, FALSE, <<>>, <<>>)

RemoteAFragment == LocatorOf(<<"g">>, <<>>, <<"h">>, <<"/", "a">>, FALSE, <<>>, <<"f">>)

RemoteAtPath ==
  LocatorOf(<<"g">>, <<>>, <<"h">>, <<"/", "a", "@", "x">>, TRUE,
            <<CHOOSE x \in Params : x.val = <<"v">>>>, <<>>)

RemoteAtRevision ==
  LocatorOf(<<"g">>, <<>>, <<"h">>, <<"/", "a">>, TRUE,
            <<CHOOSE x \in Params : x.val = <<"x", "@", "v">>>>, <<>>)

LocalHome == LocatorOf(<<>>, <<>>, <<>>, <<"~", "/", "a">>, FALSE, <<>>, <<>>)

BadLocator == LocatorOf(<<>>, <<>>, <<>>, <<"/", "%", "z", "z">>, FALSE, <<>>, <<>>)

BadQuery ==
  LocatorOf(<<"g">>, <<>>, <<"h">>, <<"/", "a">>, TRUE, <<CHOOSE x \in Params : ~x.ok>>, <<>>)

\* the (name, locator) pairs NewNamed is called with
RepoArgs ==
  { <<<<"n">>, RemoteA>>, <<<<"n">>, RemoteAFragment>>, <<<<"n">>, RemoteAtPath>>,
    <<<<"n">>, RemoteAtRevision>>, <<<<"n">>, LocalHome>>, <<<<"n">>, BadLocator>>,
    <<<<"n">>, BadQuery>> }

\* the locators New is called with
NewArgs == {RemoteA, LocalHome}

Init ==
  /\ home = HomeDir
  /\ repoCache = <<>>
  /\ repos = <<>>
  /\ calls = <<>>
  /\ locator = Nil
  /\ parseResult = Nil
  /\ strResult = Nil
  /\ NoProject

Next ==
  \/ \E a \in RepoArgs, ok \in BOOLEAN :
       NewNamed(a[1], a[2], ok) /\ UNCHANGED <<locator, parseResult, strResult, projectVars, configFile, procs, configs>>
  \/ \E l \in NewArgs, ok \in BOOLEAN :
       New(l, ok) /\ UNCHANGED <<locator, parseResult, strResult, projectVars, configFile, procs, configs>>

Spec == Init /\ [][Next]_vars

\* ------------------------------------------------------------------------
\* Properties of runs of NewNamed
\* ------------------------------------------------------------------------

CallIds == 1..Len(calls)

SamePair(i, j) ==
  /\ calls[i].name = calls[j].name
  /\ RawURL(calls[i].loc) = RawURL(calls[j].loc)

\* ParseURL returned a remote reference in call i
ParsedRemote(i) == calls[i].made /\ IsRemote(calls[i].info)


\* C1 (as the claim states it): a call repeating the pair of an earlier
\* successful call returns that call's instance without parsing, and the
\* fetch collaborator is invoked at most once for a pair over the whole run.
C1_FetchOncePerRun ==
  \A i, j \in CallIds :
    (i < j /\ SamePair(i, j)) =>
      /\ calls[i].err = "" => (calls[j].repo = calls[i].repo /\ ~calls[j].parsed)
      /\ ~(calls[i].fetched /\ calls[j].fetched)

\* C1 (amended): a call repeating the pair of an earlier successful call
\* succeeds with the instance that call returned, without parsing the locator
\* and without invoking the fetch collaborator; so among the calls of a pair
\* only those up to and including the first successful one can fetch.
C1_CachedAfterSuccess ==
  \A i, j \in CallIds :
    (i < j /\ SamePair(i, j) /\ calls[i].err = "") =>
      /\ calls[j].err = ""
      /\ calls[j].repo = calls[i].repo
      /\ calls[j].repo # NoRepo
      /\ ~calls[j].parsed
      /\ ~calls[j].fetched

C1_Witness ==
  \E i, j \in CallIds :
    /\ i < j /\ SamePair(i, j)
    /\ calls[i].err = "" /\ calls[i].fetched
    /\ calls[j].hit /\ calls[j].repo = calls[i].repo

\* C2: whenever two calls of ParseURL return remote references for locators
\* with the same host, URL path and revision, the two references have the
\* same Path, whatever happened between the calls and whatever else the two
\* locators hold.
C2_PathDeterminedByTriple ==
  \A i, j \in CallIds :
    ( /\ ParsedRemote(i) /\ ParsedRemote(j)
      /\ calls[i].loc.host = calls[j].loc.host
      /\ calls[i].loc.path = calls[j].loc.path
      /\ calls[i].info.Revision = calls[j].info.Revision )
    => calls[i].info.Path = calls[j].info.Path

\* the same locator parsed twice with a successful call of another pair in
\* between, and a locator differing only in its fragment parsed as well
C2_Witness ==
  /\ Len(calls) = 3
  /\ ParsedRemote(1) /\ ParsedRemote(2) /\ ParsedRemote(3)
  /\ calls[1].err # "" /\ calls[2].err = ""
  /\ RawURL(calls[1].loc) = RawURL(calls[3].loc)
  /\ RawURL(calls[2].loc) # RawURL(calls[1].loc)
  /\ calls[1].info.Path = calls[3].info.Path
  /\ calls[2].info.Path = calls[1].info.Path

\* C9 (as the claim states it): two remote locators that differ in host, URL
\* path or revision never get the same Path.
C9_DistinctTriplesDistinctPaths ==
  \A i, j \in CallIds :
    ( /\ ParsedRemote(i) /\ ParsedRemote(j)
      /\ \/ calls[i].loc.host # calls[j].loc.host
         \/ calls[i].loc.path # calls[j].loc.path
         \/ calls[i].info.Revision # calls[j].info.Revision )
    => calls[i].info.Path # calls[j].info.Path

\* ------------------------------------------------------------------------
\* Skeletons: template.Values, kickoff.Skeleton, LoadSkeletons, MergeSkeletons
\* ------------------------------------------------------------------------

Scalar(v) == [kind |-> "scalar", v |-> v]

Map(m) == [kind |-> "map", m |-> m]

NoValues == <<>>

\* template.Values.Merge / MergeValues: maps are merged key by key, anything
\* else is replaced by the later value
RECURSIVE MergeValues(_, _)
MergeValues(a, b) ==
  [k \in DOMAIN a \cup DOMAIN b |->
     IF k \notin DOMAIN b THEN a[k]
     ELSE IF k \notin DOMAIN a THEN b[k]
     ELSE IF a[k].kind = "map" /\ b[k].kind = "map"
          THEN Map(MergeValues(a[k].m, b[k].m))
          ELSE b[k]]

\* a file or directory of a skeleton; Content names the source bytes
FileEntry(path, isDir, isTemplate, content) ==
  [RelativePath |-> path, IsDir |-> isDir, IsTemplate |-> isTemplate, Content |-> content]

Readme == <<"README.md">>

SrcDir == <<"dir">>

MainGo == <<"dir", "main.go">>

LicensePath == <<"LICENSE">>

GitignorePath == <<".gitignore">>

NotesPath == <<"notes.txt">>

\* the skeletons of the repository, by name, as LoadSkeleton reads them: files
\* in lexical order
Skeletons ==
  [n \in {"a", "b"} |->
     IF n = "a"
     THEN [Values |-> ("key" :> Scalar(1)) @@ ("a" :> Map(("x" :> Scalar(1)) @@ ("z" :> Scalar(1))))
                      @@ ("m" :> Map("p" :> Scalar(1))),
           Files |-> << FileEntry(Readme, FALSE, FALSE, "a/README.md"),
                        FileEntry(SrcDir, TRUE, FALSE, ""),
                        FileEntry(MainGo, FALSE, TRUE, "a/dir/main.go.skel") >>]
     ELSE [Values |-> ("key" :> Scalar(2)) @@ ("a" :> Map(("y" :> Scalar(2)) @@ ("z" :> Scalar(2))))
                      @@ ("m" :> Scalar(5)),
           Files |-> << FileEntry(LicensePath, FALSE, FALSE, "b/LICENSE"),
                        FileEntry(Readme, FALSE, FALSE, "b/README.md"),
                        FileEntry(NotesPath, FALSE, TRUE, "b/notes.txt.skel") >>]]

\* repository.LoadSkeletons: one descriptor per requested name, in order
LoadSkeletons(names, ok) ==
  IF ok THEN [err |-> "", skeletons |-> [i \in 1..Len(names) |-> Skeletons[names[i]]]]
  ELSE [err |-> "skeleton not found", skeletons |-> <<>>]

HasPath(files, path) == \E i \in 1..Len(files) : files[i].RelativePath = path

EntryAt(files, path) == files[CHOOSE i \in 1..Len(files) : files[i].RelativePath = path]

\* one skeleton declares a path as a directory, another as a file
TypeConflict(lf, rf) ==
  \E i \in 1..Len(lf), j \in 1..Len(rf) :
    lf[i].RelativePath = rf[j].RelativePath /\ lf[i].IsDir # rf[j].IsDir

\* file-tree merge: a later entry replaces the earlier one in place, a new
\* path is added behind those already there
MergeFiles(lf, rf) ==
  [i \in 1..Len(lf) |->
     IF HasPath(rf, lf[i].RelativePath) /\ ~lf[i].IsDir
     THEN EntryAt(rf, lf[i].RelativePath) ELSE lf[i]]
  \o SelectSeq(rf, LAMBDA e : ~HasPath(lf, e.RelativePath))

\* Skeleton.Merge
MergeTwo(l, r) ==
  IF l.err # "" THEN l
  ELSE IF TypeConflict(l.skeleton.Files, r.Files)
  THEN [err |-> "file type conflict", skeleton |-> l.skeleton]
  ELSE [err |-> "",
        skeleton |-> [Values |-> MergeValues(l.skeleton.Values, r.Values),
                      Files |-> MergeFiles(l.skeleton.Files, r.Files)]]

RECURSIVE MergeFrom(_, _, _)
MergeFrom(skeletons, i, acc) ==
  IF i > Len(skeletons) THEN acc
  ELSE MergeFrom(skeletons, i + 1, MergeTwo(acc, skeletons[i]))

\* kickoff.MergeSkeletons
MergeSkeletons(skeletons) ==
  IF Len(skeletons) = 0
  THEN [err |-> "no skeletons to merge", skeleton |-> [Values |-> NoValues, Files |-> <<>>]]
  ELSE MergeFrom(skeletons, 2, [err |-> "", skeleton |-> skeletons[1]])

\* ------------------------------------------------------------------------
\* project.Create: the walk over the merged skeleton
\* ------------------------------------------------------------------------

\* A filesystem maps the paths that exist under the project directory (the
\* empty path being the project directory itself) to a directory or a file.
EmptyFs == <<>>

DirNode == [dir |-> TRUE, content |-> <<>>]

FileNode(content) == [dir |-> FALSE, content |-> content]

Exists(fsys, path) == path \in DOMAIN fsys

\* the path and the directories above it, up to the project directory
Prefixes(path) == {SubSeq(path, 1, n) : n \in 0..Len(path)}

\* the path or a directory above it, below the project directory, is listed
Matches(path, patterns) == \E n \in 1..Len(path) : SubSeq(path, 1, n) \in patterns

MkdirAll(fsys, path) ==
  [q \in DOMAIN fsys \cup Prefixes(path) |-> IF q \in DOMAIN fsys THEN fsys[q] ELSE DirNode]

WriteFile(fsys, path, content) ==
  [q \in DOMAIN fsys \cup Prefixes(path) |->
     IF q = path THEN FileNode(content)
     ELSE IF q \in DOMAIN fsys THEN fsys[q] ELSE DirNode]

\* the namespace templates are rendered from: the values of the config laid
\* over the values of the skeleton
RenderValues(skeleton, config) == MergeValues(skeleton.Values, config.Values)

\* the bytes written for an entry: a template is rendered, anything else copied
Rendered(e, skeleton, config) ==
  IF e.IsTemplate
  THEN <<e.Content, config.ProjectName, config.Host, config.Owner,
         RenderValues(skeleton, config)["key"]>>
  ELSE <<e.Content>>

\* what the visit of e did: before and after are the filesystem before and
\* after it, checked tells whether the target was looked up on the filesystem
Visited(before, after, e, action, checked, wrote, err) ==
  [fs |-> after, path |-> e.RelativePath, dir |-> e.IsDir, content |-> e.Content,
   action |-> action, existed |-> Exists(before, e.RelativePath), checked |-> checked,
   wrote |-> wrote, err |-> err,
   was |-> IF Exists(before, e.RelativePath) THEN before[e.RelativePath] ELSE Nil,
   now |-> IF Exists(after, e.RelativePath) THEN after[e.RelativePath] ELSE Nil]

\* the entry is written with action; rendering fails for the templates in bad
writeEntry(e, skeleton, config, fsys, bad, action) ==
  IF e.IsTemplate /\ e.Content \in bad
  THEN Visited(fsys, fsys, e, action, TRUE, FALSE, "template render error")
  ELSE Visited(fsys, WriteFile(fsys, e.RelativePath, Rendered(e, skeleton, config)), e, action,
               TRUE, TRUE, "")

\* one entry of the walk
visitEntry(e, skeleton, config, fsys, bad) ==
  IF Matches(e.RelativePath, config.SkipFiles)
  THEN Visited(fsys, fsys, e, "Skip", FALSE, FALSE, "")
  ELSE IF e.IsDir
  THEN IF Exists(fsys, e.RelativePath)
       THEN Visited(fsys, fsys, e, "None", TRUE, FALSE, "")
       ELSE Visited(fsys, MkdirAll(fsys, e.RelativePath), e, "Create", TRUE, FALSE, "")
  ELSE IF ~Exists(fsys, e.RelativePath)
  THEN writeEntry(e, skeleton, config, fsys, bad, "Create")
  ELSE IF Matches(e.RelativePath, config.OverwriteFiles)
  THEN writeEntry(e, skeleton, config, fsys, bad, "OverwriteFile")
  ELSE IF config.Overwrite
  THEN writeEntry(e, skeleton, config, fsys, bad, "Overwrite")
  ELSE Visited(fsys, fsys, e, "SkipExisting", TRUE, FALSE, "")

\* the entries of the walk: the files of the skeleton, then the synthesized
\* LICENSE and .gitignore
WalkEntries(skeleton, config) ==
  skeleton.Files
  \o (IF config.License # "" THEN <<FileEntry(LicensePath, FALSE, FALSE, config.License)>> ELSE <<>>)
  \o (IF config.Gitignore # "" THEN <<FileEntry(GitignorePath, FALSE, FALSE, config.Gitignore)>> ELSE <<>>)

RECURSIVE walk(_, _, _, _, _, _, _)
RECURSIVE walkVisited(_, _, _, _, _, _, _)
walk(entries, i, skeleton, config, fsys, log, bad) ==
  IF i > Len(entries) THEN [fs |-> fsys, log |-> log, err |-> ""]
  ELSE walkVisited(entries, i, skeleton, config, log, bad,
                   visitEntry(entries[i], skeleton, config, fsys, bad))

walkVisited(entries, i, skeleton, config, log, bad, v) ==
  IF v.err # "" THEN [fs |-> v.fs, log |-> log, err |-> v.err]
  ELSE walk(entries, i + 1, skeleton, config, v.fs,
            Append(log, [path |-> v.path, dir |-> v.dir, content |-> v.content,
                         action |-> v.action, existed |-> v.existed,
                         checked |-> v.checked, wrote |-> v.wrote,
                         was |-> v.was, now |-> v.now]), bad)

ActionTypes == {"Create", "Skip", "SkipExisting", "Overwrite", "OverwriteFile"}

NoResult == <<>>

\* the MaterializeResult of a finished walk
ResultOf(log) ==
  [Entries |-> [i \in 1..Len(SelectSeq(log, LAMBDA v : v.action # "None")) |->
                  [Path |-> SelectSeq(log, LAMBDA v : v.action # "None")[i].path,
                   Action |-> SelectSeq(log, LAMBDA v : v.action # "None")[i].action]],
   Stats |-> [a \in ActionTypes |->
                Cardinality({i \in 1..Len(log) : log[i].action = a})]]

createReturn(w) ==
  [fs |-> w.fs, log |-> w.log, err |-> w.err,
   result |-> IF w.err = "" THEN ResultOf(w.log) ELSE NoResult]

\* project.Create(skeleton, dir, config) on the filesystem fsys of the config
Create(skeleton, config, fsys, bad) ==
  createReturn(walk(WalkEntries(skeleton, config), 1, skeleton, config, fsys, <<>>, bad))

\* ------------------------------------------------------------------------
\* `kickoff project create <name> <skeleton-name>...`
\* ------------------------------------------------------------------------

NoLicense == "none"

NoGitignore == "none"

\* config.Project of the loaded configuration
ConfigProject == [Host |-> "github.com", Owner |-> "o", License |-> "", Gitignore |-> ""]

\* config.Values of the loaded configuration
ConfigValues == "lvl" :> Scalar(1)

\* template.LoadValues(path), by path
ValuesFiles ==
  [f \in {"v1", "v2"} |->
     IF f = "v1" THEN ("lvl" :> Scalar(2)) @@ ("key" :> Scalar(7))
     ELSE ("lvl" :> Scalar(4)) @@ ("key" :> Scalar(8)) @@ ("m" :> Map("x" :> Scalar(1)))]

\* what a --set expression sets
RawValues ==
  [r \in {"lvl=3", "lvl=6", "key=9", "m.y=2"} |->
     IF r = "lvl=3" THEN "lvl" :> Scalar(3)
     ELSE IF r = "lvl=6" THEN "lvl" :> Scalar(6)
     ELSE IF r = "key=9" THEN "key" :> Scalar(9)
     ELSE "m" :> Map("y" :> Scalar(2))]

\* strvals.ParseInto(rawValues, values)
ParseInto(raw, values) == MergeValues(values, RawValues[raw])

\* the CreateOptions RunE starts from: the flags, and the positional arguments
optionsOf(a) ==
  [ProjectName |-> a.ProjectName, SkeletonNames |-> a.SkeletonNames,
   ProjectHost |-> "", ProjectOwner |-> "", License |-> a.License,
   Gitignore |-> a.Gitignore, Values |-> NoValues, DryRun |-> a.DryRun,
   Force |-> a.Force, Overwrite |-> a.Overwrite, OverwriteFiles |-> a.OverwriteFiles,
   SkipFiles |-> a.SkipFiles, InitGit |-> a.InitGit, rawValues |-> a.rawValues,
   valuesFiles |-> a.valuesFiles]

RECURSIVE mergeValuesFiles(_, _, _)
mergeValuesFiles(values, files, i) ==
  IF i > Len(files) THEN values
  ELSE mergeValuesFiles(MergeValues(values, ValuesFiles[files[i]]), files, i + 1)

RECURSIVE parseRawValues(_, _, _)
parseRawValues(values, raws, i) ==
  IF i > Len(raws) THEN values
  ELSE parseRawValues(ParseInto(raws[i], values), raws, i + 1)

completed_SetBeforeValuesFiles(o) ==
  [o EXCEPT !.ProjectHost = IF @ = "" THEN ConfigProject.Host ELSE @,
            !.ProjectOwner = IF @ = "" THEN ConfigProject.Owner ELSE @,
            !.License = IF @ = "" THEN ConfigProject.License ELSE @,
            !.Gitignore = IF @ = "" THEN ConfigProject.Gitignore ELSE @,
            !.Values = mergeValuesFiles(parseRawValues(ConfigValues, o.rawValues, 1),
                                        o.valuesFiles, 1)]

\* Complete: the options once every check has passed
completed(o) ==
  [o EXCEPT !.ProjectHost = IF @ = "" THEN ConfigProject.Host ELSE @,
            !.ProjectOwner = IF @ = "" THEN ConfigProject.Owner ELSE @,
            !.License = IF @ = "" THEN ConfigProject.License ELSE @,
            !.Gitignore = IF @ = "" THEN ConfigProject.Gitignore ELSE @,
            !.Values = parseRawValues(mergeValuesFiles(ConfigValues, o.valuesFiles, 1),
                                      o.rawValues, 1)]

completeError_ExistingAllowed(o, fsys) ==
  IF o.ProjectName = "" THEN "project name must not be empty"
  ELSE IF completed(o).ProjectOwner = "" THEN "--owner needs to be set"
  ELSE ""

\* Complete: the error it returns, if any
completeError(o, fsys) ==
  IF o.ProjectName = "" THEN "project name must not be empty"
  ELSE IF Exists(fsys, <<>>) /\ ~o.Force THEN "project dir already exists"
  ELSE IF completed(o).ProjectOwner = "" THEN "--owner needs to be set"
  ELSE ""

\* what an invocation returned and went through
Outcome(err, stage, fsys, world, merged, config, result, log, inits) ==
  [err |-> err, stage |-> stage, before |-> fsys, world |-> world, merged |-> merged,
   config |-> config, result |-> result, log |-> log, inits |-> inits, initErr |-> ""]

\* the invocation stopped before project.Create was called
Stopped(err, stage, fsys) ==
  Outcome(err, stage, fsys, [os |-> fsys, mem |-> EmptyFs], Nil, Nil, NoResult, <<>>, 0)

\* CreateOptions.Complete, called by RunE
Complete ==
  /\ pc = "start"
  /\ IF completeError(opts, fs) # ""
     THEN /\ pc' = "done"
          /\ outcome' = Stopped(completeError(opts, fs), "complete", fs)
          /\ UNCHANGED opts
     ELSE /\ pc' = "completed"
          /\ opts' = completed(opts)
          /\ UNCHANGED outcome
  /\ UNCHANGED <<args, fs, gitInits, earlier>>

\* what can go wrong in the collaborators of one invocation
Faults == {"none", "repository", "load", "license", "gitignore", "git", "gitExists"}

\* the templates of the skeletons
TemplateSources == {"a/dir/main.go.skel", "b/notes.txt.skel"}

\* what is injected into one invocation: a fault of a collaborator, or the
\* templates whose rendering fails
Injections ==
  {<<fault, {}>> : fault \in Faults}
  \cup {<<"none", bad>> : bad \in SUBSET TemplateSources \ {{}}}

projectConfig_SkipAndOverwriteSwapped(o) ==
  [ProjectName |-> o.ProjectName, Host |-> o.ProjectHost, Owner |-> o.ProjectOwner,
   Overwrite |-> o.Overwrite, OverwriteFiles |-> o.SkipFiles,
   SkipFiles |-> o.OverwriteFiles, Values |-> o.Values,
   License |-> "", Gitignore |-> "", Filesystem |-> "os"]

projectConfig_SkipFilesDropped(o) ==
  [ProjectName |-> o.ProjectName, Host |-> o.ProjectHost, Owner |-> o.ProjectOwner,
   Overwrite |-> o.Overwrite, OverwriteFiles |-> o.OverwriteFiles,
   SkipFiles |-> {}, Values |-> o.Values,
   License |-> "", Gitignore |-> "", Filesystem |-> "os"]

\* createProject: the project.Config built from the options
projectConfig(o) ==
  [ProjectName |-> o.ProjectName, Host |-> o.ProjectHost, Owner |-> o.ProjectOwner,
   Overwrite |-> o.Overwrite, OverwriteFiles |-> o.OverwriteFiles,
   SkipFiles |-> o.SkipFiles, Values |-> o.Values,
   License |-> "", Gitignore |-> "", Filesystem |-> "os"]

\* createProject: the license fetched for the options, "" when none is asked for
licenseOf(o, fault) ==
  IF o.License # "" /\ o.License # NoLicense
  THEN IF fault = "license" THEN [err |-> "license not found", text |-> ""]
       ELSE [err |-> "", text |-> "license/" \o o.License]
  ELSE [err |-> "", text |-> ""]

\* createProject: the gitignore template fetched for the options
gitignoreOf(o, fault) ==
  IF o.Gitignore # "" /\ o.Gitignore # NoGitignore
  THEN IF fault = "gitignore" THEN [err |-> "gitignore template not found", text |-> ""]
       ELSE [err |-> "", text |-> "gitignore/" \o o.Gitignore]
  ELSE [err |-> "", text |-> ""]

configFilesystem_AlwaysOs(o) == "os"

\* createProject: the filesystem project.Create works on; a dry run gets a
\* fresh afero.NewMemMapFs()
configFilesystem(o) == IF o.DryRun THEN "mem" ELSE "os"

createProjectDone_ErrorDropped(fsys, world, merged, config, c) ==
  Outcome("", "create", fsys, [world EXCEPT ![config.Filesystem] = c.fs],
          merged, config, c.result, c.log, 0)

\* createProject once project.Create has returned c
createProjectDone(fsys, world, merged, config, c) ==
  IF c.err # ""
  THEN Outcome(c.err, "create", fsys, [world EXCEPT ![config.Filesystem] = c.fs],
               merged, config, NoResult, c.log, 0)
  ELSE Outcome("", "create", fsys, [world EXCEPT ![config.Filesystem] = c.fs],
               merged, config, c.result, c.log, 0)

\* createProject with the config built
createProjectWith(fsys, world, merged, config, bad) ==
  createProjectDone(fsys, world, merged, config,
                    Create(merged, config, world[config.Filesystem], bad))

\* createProject with the license and the gitignore template fetched
createProjectFetched(o, fsys, merged, bad, license, gitignore) ==
  IF license.err # "" THEN Stopped(license.err, "license", fsys)
  ELSE IF gitignore.err # "" THEN Stopped(gitignore.err, "gitignore", fsys)
  ELSE createProjectWith(fsys, [os |-> fsys, mem |-> EmptyFs], merged,
                         [projectConfig(o) EXCEPT !.License = license.text,
                                                  !.Gitignore = gitignore.text,
                                                  !.Filesystem = configFilesystem(o)],
                         bad)

\* CreateOptions.createProject
createProject(o, fsys, merged, fault, bad) ==
  createProjectFetched(o, fsys, merged, bad, licenseOf(o, fault),
                       IF licenseOf(o, fault).err = "" THEN gitignoreOf(o, fault)
                       ELSE [err |-> "", text |-> ""])

\* git.ErrRepositoryAlreadyExists
ErrRepositoryAlreadyExists == "repository already exists"

\* GitClient.Init(path): the error it returns
GitInit(fault) ==
  IF fault = "git" THEN "git init failed"
  ELSE IF fault = "gitExists" THEN ErrRepositoryAlreadyExists
  ELSE ""

initGitRepository_AnyErrorReturned(o, fault) ==
  IF ~o.DryRun
  THEN [inits |-> 1, err |-> GitInit(fault), initErr |-> GitInit(fault)]
  ELSE [inits |-> 0, err |-> "", initErr |-> ""]

\* CreateOptions.initGitRepository: the Init calls made, the error Init
\* returned and the error returned
initGitRepository(o, fault) ==
  IF ~o.DryRun
  THEN [inits |-> 1,
        err |-> IF GitInit(fault) # "" /\ GitInit(fault) # ErrRepositoryAlreadyExists
                THEN GitInit(fault) ELSE "",
        initErr |-> GitInit(fault)]
  ELSE [inits |-> 0, err |-> "", initErr |-> ""]

\* Run once initGitRepository has returned
runInitialised(created, git) ==
  [created EXCEPT !.err = git.err, !.stage = "git", !.inits = git.inits,
                  !.initErr = git.initErr]

\* Run once createProject has returned
runCreated(o, fault, created) ==
  IF created.err # "" \/ ~o.InitGit THEN created
  ELSE runInitialised(created, initGitRepository(o, fault))

mergeArguments_Reversed(skeletons) ==
  [i \in 1..Len(skeletons) |-> skeletons[Len(skeletons) + 1 - i]]

mergeArguments_FirstOnly(skeletons) == <<skeletons[1]>>

\* Run: the skeletons handed to MergeSkeletons
mergeArguments(skeletons) == skeletons

\* Run once the skeletons are merged
runMerged(o, fsys, fault, bad, merged) ==
  IF merged.err # "" THEN Stopped(merged.err, "merge", fsys)
  ELSE runCreated(o, fault, createProject(o, fsys, merged.skeleton, fault, bad))

\* Run once the skeletons are loaded
runLoaded(o, fsys, fault, bad, loaded) ==
  IF loaded.err # "" THEN Stopped(loaded.err, "load", fsys)
  ELSE runMerged(o, fsys, fault, bad, MergeSkeletons(mergeArguments(loaded.skeletons)))

\* what Run returns and goes through
runOutcome(o, fsys, fault, bad) ==
  IF fault = "repository" THEN Stopped("repository not found", "repository", fsys)
  ELSE runLoaded(o, fsys, fault, bad, LoadSkeletons(o.SkeletonNames, fault # "load"))

finish(out) ==
  /\ pc' = "done"
  /\ outcome' = out
  /\ fs' = out.world.os
  /\ gitInits' = gitInits + out.inits

\* CreateOptions.Run, called by RunE when Complete returned no error
Run ==
  /\ pc = "completed"
  /\ \E i \in Injections : finish(runOutcome(opts, fs, i[1], i[2]))
  /\ UNCHANGED <<args, opts, earlier>>

\* after a dry run the command is invoked again with the same arguments,
\* this time without --dry-run
Rerun ==
  /\ pc = "done"
  /\ args.DryRun
  /\ earlier' = Append(earlier, [args |-> args, outcome |-> outcome])
  /\ args' = [args EXCEPT !.DryRun = ~@]
  /\ opts' = optionsOf([args EXCEPT !.DryRun = ~@])
  /\ pc' = "start"
  /\ outcome' = Nil
  /\ UNCHANGED <<fs, gitInits>>

\* the paths --overwrite-file and --skip-file are given
PatternSets == {{}, {Readme}, {SrcDir}}

\* the skeleton names given on the command line
SkeletonArgs == {<<"a">>, <<"b">>, <<"a", "b">>, <<"b", "a">>}

\* the --license and --gitignore flags
LicenseArgs == {<<"", "">>, <<"mit", "go">>, <<NoLicense, NoGitignore>>}

\* the --values and --set flags
ValueArgs == {<<<<>>, <<>>>>, <<<<"v1">>, <<"lvl=3">>>>}

\* a project directory that holds files already
ExistingFs ==
  (<<>> :> DirNode) @@ (Readme :> FileNode(<<"old">>)) @@ (SrcDir :> DirNode)
  @@ (MainGo :> FileNode(<<"old">>))

Arguments ==
  { [ProjectName |-> "p", SkeletonNames |-> names, License |-> lic[1], Gitignore |-> lic[2],
     DryRun |-> dry, Force |-> force, Overwrite |-> ow, OverwriteFiles |-> owf,
     SkipFiles |-> skf, InitGit |-> git, rawValues |-> vals[2], valuesFiles |-> vals[1]] :
      names \in SkeletonArgs, lic \in LicenseArgs, dry \in BOOLEAN, force \in BOOLEAN,
      ow \in BOOLEAN, owf \in PatternSets, skf \in PatternSets, git \in BOOLEAN,
      vals \in ValueArgs }

ProjectInit ==
  /\ args \in Arguments
  /\ opts = optionsOf(args)
  /\ pc = "start"
  /\ fs \in {EmptyFs, ExistingFs}
  /\ args.Force => fs = ExistingFs
  /\ gitInits = 0
  /\ outcome = Nil
  /\ earlier = <<>>
  /\ home = HomeDir
  /\ locator = Nil /\ parseResult = Nil /\ strResult = Nil
  /\ repoCache = <<>> /\ repos = <<>> /\ calls = <<>>
  /\ configFile = Nil /\ procs = Nil /\ configs = Nil

ProjectNext ==
  \/ Complete /\ UNCHANGED <<home, locator, parseResult, strResult, repoCache, repos, calls,
                           configFile, procs, configs>>
  \/ Run /\ UNCHANGED <<home, locator, parseResult, strResult, repoCache, repos, calls,
                           configFile, procs, configs>>
  \/ Rerun /\ UNCHANGED <<home, locator, parseResult, strResult, repoCache, repos, calls,
                           configFile, procs, configs>>

SpecProject == ProjectInit /\ [][ProjectNext]_vars

\* ------------------------------------------------------------------------
\* Properties of `project create`
\* ------------------------------------------------------------------------

\* the invocation is over and project.Create was called in it
Walked == pc = "done" /\ outcome.stage \in {"create", "git"}

\* the skeletons were merged in the invocation
Merged == pc = "done" /\ outcome.merged # Nil

\* the filesystem project.Create worked on, before and after the call
WalkBefore == IF args.DryRun THEN EmptyFs ELSE outcome.before

WalkAfter == IF args.DryRun THEN outcome.world.mem ELSE fs

\* C3: a file entry whose target exists when it is visited gets one action:
\* Skip when the target or a directory above it is given as --skip-file,
\* whatever the other flags, and then the target is neither looked up nor
\* changed; otherwise OverwriteFile when it or a directory above it is given
\* as --overwrite-file, otherwise Overwrite with --overwrite, both writing the
\* entry's content; otherwise SkipExisting, the file left as it was.
C3_ConflictPolicy ==
  Walked =>
    \A i \in 1..Len(outcome.log) :
      (~outcome.log[i].dir /\ outcome.log[i].existed) =>
        IF Matches(outcome.log[i].path, args.SkipFiles)
        THEN /\ outcome.log[i].action = "Skip"
             /\ ~outcome.log[i].checked /\ ~outcome.log[i].wrote
             /\ outcome.log[i].now = outcome.log[i].was
        ELSE IF Matches(outcome.log[i].path, args.OverwriteFiles)
        THEN /\ outcome.log[i].action = "OverwriteFile"
             /\ outcome.log[i].wrote
             /\ outcome.log[i].now.content[1] = outcome.log[i].content
        ELSE IF args.Overwrite
        THEN /\ outcome.log[i].action = "Overwrite"
             /\ outcome.log[i].wrote
             /\ outcome.log[i].now.content[1] = outcome.log[i].content
        ELSE /\ outcome.log[i].action = "SkipExisting"
             /\ ~outcome.log[i].wrote
             /\ outcome.log[i].now = outcome.log[i].was

\* README.md exists and is given both as --skip-file and as --overwrite-file
\* with --overwrite set: it is skipped, while dir/main.go is overwritten
C3_Witness ==
  /\ Walked /\ outcome.err = ""
  /\ args.Overwrite /\ args.SkipFiles = {Readme} /\ args.OverwriteFiles = {Readme}
  /\ \E i, j \in 1..Len(outcome.log) :
       /\ outcome.log[i].path = Readme /\ outcome.log[i].existed
       /\ outcome.log[i].action = "Skip"
       /\ outcome.log[j].path = MainGo /\ outcome.log[j].existed
       /\ outcome.log[j].action = "Overwrite"
  /\ fs[Readme] = FileNode(<<"old">>)
  /\ fs[MainGo] # FileNode(<<"old">>)

\* the last of the named skeletons that defines the top-level key k
LastDefining(names, k) ==
  CHOOSE i \in 1..Len(names) :
    /\ k \in DOMAIN Skeletons[names[i]].Values
    /\ \A j \in (i + 1)..Len(names) : k \notin DOMAIN Skeletons[names[j]].Values

\* C4: in the merged skeleton a key has the value of the last skeleton that
\* defines it, except that maps are merged key by key: "a", "b" gives
\* key = 2 and a = {x:1, y:2, z:2}; "b", "a" gives key = 1 and
\* a = {x:1, y:2, z:1}; a map and a scalar under one key do not merge, the
\* later one stands.
C4_ValuesLastWins ==
  Merged =>
    /\ \A k \in DOMAIN outcome.merged.Values :
         Skeletons[args.SkeletonNames[LastDefining(args.SkeletonNames, k)]].Values[k].kind = "scalar"
         => outcome.merged.Values[k]
              = Skeletons[args.SkeletonNames[LastDefining(args.SkeletonNames, k)]].Values[k]
    /\ args.SkeletonNames = <<"a", "b">> =>
         /\ outcome.merged.Values["key"] = Scalar(2)
         /\ outcome.merged.Values["a"]
              = Map(("x" :> Scalar(1)) @@ ("y" :> Scalar(2)) @@ ("z" :> Scalar(2)))
         /\ outcome.merged.Values["m"] = Scalar(5)
    /\ args.SkeletonNames = <<"b", "a">> =>
         /\ outcome.merged.Values["key"] = Scalar(1)
         /\ outcome.merged.Values["a"]
              = Map(("x" :> Scalar(1)) @@ ("y" :> Scalar(2)) @@ ("z" :> Scalar(1)))
         /\ outcome.merged.Values["m"] = Map("p" :> Scalar(1))

C4_Witness ==
  /\ Merged
  /\ args.SkeletonNames = <<"a", "b">>
  /\ outcome.merged.Values["key"] = Scalar(2)
  /\ outcome.merged.Values["a"].m["x"] = Scalar(1)
  /\ outcome.merged.Values["a"].m["y"] = Scalar(2)

\* the named skeletons that declare path, in the order given
Declaring(names, path) ==
  {i \in 1..Len(names) : HasPath(Skeletons[names[i]].Files, path)}

Max(S) == CHOOSE x \in S : \A y \in S : y <= x

Min(S) == CHOOSE x \in S : \A y \in S : x <= y

PositionIn(files, path) == CHOOSE i \in 1..Len(files) : files[i].RelativePath = path

\* path p was introduced before path q: by an earlier skeleton, or by the
\* same skeleton further up in its list
IntroducedBefore(names, p, q) ==
  \/ Min(Declaring(names, p)) < Min(Declaring(names, q))
  \/ /\ Min(Declaring(names, p)) = Min(Declaring(names, q))
     /\ PositionIn(Skeletons[names[Min(Declaring(names, p))]].Files, p)
          < PositionIn(Skeletons[names[Min(Declaring(names, p))]].Files, q)

\* C5: the merged file list holds every declared path once; a file has the
\* content of the last skeleton declaring it; and the list is ordered by
\* first introduction of the paths.
C5_FileOverlay ==
  Merged =>
    /\ \A i, j \in 1..Len(outcome.merged.Files) :
         outcome.merged.Files[i].RelativePath = outcome.merged.Files[j].RelativePath => i = j
    /\ \A i \in 1..Len(outcome.merged.Files) :
         /\ Declaring(args.SkeletonNames, outcome.merged.Files[i].RelativePath) # {}
         /\ outcome.merged.Files[i]
              = EntryAt(Skeletons[args.SkeletonNames[
                          Max(Declaring(args.SkeletonNames,
                                        outcome.merged.Files[i].RelativePath))]].Files,
                        outcome.merged.Files[i].RelativePath)
    /\ \A i, j \in 1..Len(outcome.merged.Files) :
         i < j => IntroducedBefore(args.SkeletonNames,
                                   outcome.merged.Files[i].RelativePath,
                                   outcome.merged.Files[j].RelativePath)
    /\ \A n \in 1..Len(args.SkeletonNames) :
         \A k \in 1..Len(Skeletons[args.SkeletonNames[n]].Files) :
           HasPath(outcome.merged.Files, Skeletons[args.SkeletonNames[n]].Files[k].RelativePath)

\* "a" then "b": README.md comes first, where "a" introduced it, with the
\* content of "b", and is written with that content
C5_Witness ==
  /\ Merged /\ Walked /\ outcome.err = ""
  /\ args.SkeletonNames = <<"a", "b">>
  /\ outcome.merged.Files[1].RelativePath = Readme
  /\ outcome.merged.Files[1].Content = "b/README.md"
  /\ outcome.merged.Files[4].RelativePath = LicensePath
  /\ ~args.DryRun /\ outcome.before = EmptyFs
  /\ fs[Readme] = FileNode(<<"b/README.md">>)

\* C6: a dry run changes nothing on the real filesystem and does not invoke
\* GitClient.Init; and when the project directory did not exist before the
\* dry run, the run of the same command without --dry-run that follows it
\* gives the same Stats and the same Entries as the dry run did, both having
\* succeeded.
C6_DryRunIsolation ==
  /\ (pc = "done" /\ args.DryRun) =>
       /\ fs = outcome.before
       /\ outcome.world.os = outcome.before
       /\ outcome.inits = 0 /\ gitInits = 0
  /\ ( /\ pc = "done" /\ earlier # <<>>
       /\ earlier[1].outcome.before = EmptyFs
       /\ earlier[1].outcome.stage \in {"create", "git"} /\ earlier[1].outcome.err = ""
       /\ outcome.stage \in {"create", "git"} /\ outcome.result # NoResult ) =>
       /\ outcome.result.Stats = earlier[1].outcome.result.Stats
       /\ outcome.result.Entries = earlier[1].outcome.result.Entries

\* a dry run with --init-git over a missing project directory wrote its files
\* to the virtual filesystem only; the real run after it creates the same
\* files for real and calls Init once
C6_Witness ==
  /\ pc = "done" /\ earlier # <<>>
  /\ earlier[1].args.DryRun /\ earlier[1].args.InitGit
  /\ earlier[1].outcome.before = EmptyFs
  /\ earlier[1].outcome.err = "" /\ earlier[1].outcome.stage = "git"
  /\ earlier[1].outcome.world.os = EmptyFs
  /\ earlier[1].outcome.world.mem # EmptyFs
  /\ earlier[1].outcome.result.Stats["Create"] > 2
  /\ outcome.err = "" /\ outcome.stage = "git"
  /\ outcome.result.Stats = earlier[1].outcome.result.Stats
  /\ fs # EmptyFs /\ gitInits = 1

\* the entries project.Create was to walk in the invocation
Entries == WalkEntries(outcome.merged, outcome.config)

\* the walk stopped before its last entry
Aborted == Walked /\ Len(outcome.log) < Len(Entries)

\* the paths the walk wrote or created before it stopped, and the
\* directories above them
Touched ==
  UNION {Prefixes(outcome.log[i].path) :
           i \in {j \in 1..Len(outcome.log) : outcome.log[j].action \notin {"Skip", "SkipExisting", "None"}}}

\* path is on the filesystem after the walk as it was before it
Untouched(path) ==
  /\ Exists(WalkAfter, path) <=> Exists(WalkBefore, path)
  /\ Exists(WalkAfter, path) => WalkAfter[path] = WalkBefore[path]

\* C7: when the walk stops at its k-th entry, that entry is a template whose
\* rendering failed; the entries before it were visited in order and what
\* they wrote is on the filesystem; the k-th entry's target is as it was
\* before the walk, and so is every path no earlier entry touched; the
\* command returns the error and there is no result.
C7_FailFast ==
  Aborted =>
    /\ Entries[Len(outcome.log) + 1].IsTemplate
    /\ outcome.err = "template render error"
    /\ outcome.result = NoResult
    /\ \A i \in 1..Len(outcome.log) :
         /\ outcome.log[i].path = Entries[i].RelativePath
         /\ outcome.log[i].wrote =>
              /\ Exists(WalkAfter, outcome.log[i].path)
              /\ ~WalkAfter[outcome.log[i].path].dir
              /\ (\A j \in (i + 1)..Len(outcome.log) :
                    outcome.log[j].path # outcome.log[i].path)
                 => WalkAfter[outcome.log[i].path].content[1] = Entries[i].Content
    /\ Untouched(Entries[Len(outcome.log) + 1].RelativePath)
    /\ \A p \in DOMAIN WalkAfter \cup DOMAIN WalkBefore \cup
                {Entries[j].RelativePath : j \in (Len(outcome.log) + 1)..Len(Entries)} :
         p \notin Touched => Untouched(p)

\* rendering fails on the third of the five entries of "a" then "b": the
\* first two are on disk, the last three are not
C7_Witness ==
  /\ Aborted /\ ~args.DryRun
  /\ args.SkeletonNames = <<"a", "b">>
  /\ outcome.before = EmptyFs
  /\ Len(outcome.log) = 2
  /\ Entries[3].RelativePath = MainGo /\ Len(Entries) >= 5
  /\ outcome.err = "template render error" /\ outcome.result = NoResult
  /\ fs[Readme] = FileNode(<<"b/README.md">>)
  /\ Exists(fs, SrcDir)
  /\ ~Exists(fs, MainGo) /\ ~Exists(fs, LicensePath) /\ ~Exists(fs, NotesPath)

\* the merged skeleton of the invocation provides a file at path
Provides(path) ==
  \E i \in 1..Len(outcome.merged.Files) :
    outcome.merged.Files[i].RelativePath = path /\ ~outcome.merged.Files[i].IsDir

\* the synthesized file at path (content text, "" when none is configured)
\* is visited after every entry of the skeleton, by the same policy steps,
\* and is what the output directory holds at path after the walk
SynthesizedWins(path, text) ==
  (text # "" /\ Provides(path)) =>
    /\ \E k \in (Len(outcome.merged.Files) + 1)..Len(outcome.log) :
         /\ outcome.log[k].path = path /\ outcome.log[k].content = text
         /\ outcome.log[k].existed
         /\ outcome.log[k].action =
              (IF Matches(path, args.SkipFiles) THEN "Skip"
               ELSE IF Matches(path, args.OverwriteFiles) THEN "OverwriteFile"
               ELSE IF args.Overwrite THEN "Overwrite" ELSE "SkipExisting")
    /\ WalkAfter[path] = FileNode(<<text>>)

\* C12: when a license (or gitignore template) is configured and the merged
\* skeleton provides a LICENSE (or .gitignore) file itself, the synthesized
\* entry is visited after all entries of the skeleton through the same policy
\* steps, and the file in the output directory holds the synthesized content.
C12_SynthesizedOverrides ==
  (Walked /\ outcome.err = "") =>
    /\ SynthesizedWins(LicensePath, outcome.config.License)
    /\ SynthesizedWins(GitignorePath, outcome.config.Gitignore)

\* ------------------------------------------------------------------------
\* `kickoff repository create <name> <dir>`
\* ------------------------------------------------------------------------

\* kickoff.SkeletonsDir
SkeletonsDir == <<"s", "k", "e", "l", "e", "t", "o", "n", "s">>

\* kickoff.DefaultSkeletonName
DefaultSkeletonName == <<"d", "e", "f", "a", "u", "l", "t">>

\* kickoff.DefaultRepositoryName and kickoff.DefaultRepositoryURL
DefaultRepositoryName == "default"

DefaultRepositoryURL == <<"g", ":", "/", "/", "h", "/", "d">>

\* the working directory of the process
Cwd == <<"/", "w">>

\* filepath.Abs: an absolute path is cleaned, any other path is joined to the
\* working directory, which os.Getwd may fail to give
Abs(path, getwd) ==
  IF HasPrefix(path, <<"/">>) THEN [err |-> "", path |-> Clean(path)]
  ELSE IF ~getwd THEN [err |-> "getwd failed", path |-> <<>>]
  ELSE [err |-> "", path |-> Join(<<Cwd, path>>)]

\* the directories above an absolute path, and the path itself
aboveOf(elems) == { <<"/">> \o joinElems(SubSeq(elems, 1, n), <<"/">>) : n \in 0..Len(elems) }

PathAndAbove(path) == aboveOf(cleanElems(Split(path, "/"), 1, TRUE, <<>>))

\* os.MkdirAll(path, 0755) on disk: nothing is created when the path or a
\* directory above it is a file, or when the operating system refuses
mkdirAllOf(disk, dirs, ok) ==
  IF \E q \in dirs : q \in DOMAIN disk /\ ~disk[q].dir
  THEN [err |-> "not a directory", disk |-> disk]
  ELSE IF ~ok THEN [err |-> "permission denied", disk |-> disk]
  ELSE [err |-> "", disk |-> [q \in dirs \ DOMAIN disk |-> DirNode] @@ disk]

osMkdirAll(disk, path, ok) == mkdirAllOf(disk, PathAndAbove(path), ok)

KickoffYaml == <<".", "k", "i", "c", "k", "o", "f", "f", ".", "y", "a", "m", "l">>

ReadmeSkel == <<"R", "E", "A", "D", "M", "E", ".", "m", "d", ".", "s", "k", "e", "l">>

\* skeleton.Create(path): the skeleton directory with its configuration file
\* and a README template
skeletonCreate(disk, path, ok) ==
  IF ~ok THEN [err |-> "failed to create skeleton", disk |-> disk]
  ELSE [err |-> "",
        disk |-> [q \in {Join(<<path, KickoffYaml>>), Join(<<path, ReadmeSkel>>)} |->
                    FileNode(<<"skeleton">>)]
                 @@ [q \in PathAndAbove(path) \ DOMAIN disk |-> DirNode] @@ disk]

\* repository.Create once MkdirAll has returned m
createMade(m, skeletonDir, fault) ==
  IF m.err # "" THEN [err |-> "failed to create skeleton repository", disk |-> m.disk]
  ELSE skeletonCreate(m.disk, skeletonDir, fault # "skeleton")

\* repository.Create with skeletonsDir joined
createIn(disk, skeletonsDir, skeletonName, fault) ==
  createMade(osMkdirAll(disk, skeletonsDir, fault # "mkdir"),
             Join(<<skeletonsDir, skeletonName>>), fault)

\* repository.Create(path, skeletonName), which the command calls as
\* repository.CreateWithSkeleton
CreateWithSkeleton(disk, path, skeletonName, fault) ==
  createIn(disk, Join(<<path, SkeletonsDir>>), skeletonName, fault)

\* Config.Validate: the error for the repositories of a configuration
validateConfig(repositories) ==
  IF \E n \in DOMAIN repositories : n = "" THEN "repository name must not be empty"
  ELSE IF \E n \in DOMAIN repositories : Parse(repositories[n]).err # "" THEN "invalid URL"
  ELSE ""

\* Config.ApplyDefaults: a configuration without repositories gets the
\* default repository
ApplyDefaults(repositories) ==
  IF DOMAIN repositories = {} THEN DefaultRepositoryName :> DefaultRepositoryURL
  ELSE repositories

\* kickoff.LoadConfig(path)
LoadConfig(file, ok) ==
  IF ~ok THEN [err |-> "cannot read config", repositories |-> <<>>]
  ELSE IF validateConfig(file.Repositories) # ""
  THEN [err |-> validateConfig(file.Repositories), repositories |-> <<>>]
  ELSE [err |-> "", repositories |-> ApplyDefaults(file.Repositories)]

\* kickoff.SaveConfig(path, config)
SaveConfig(file, repositories, ok) ==
  IF ~ok THEN [err |-> "cannot write config", file |-> file]
  ELSE [err |-> "", file |-> [Repositories |-> repositories, writes |-> file.writes + 1]]

\* the CreateOptions NewCreateCmd starts from
createOptionsOf(a) ==
  [RepoName |-> "", RepoDir |-> <<>>, SkeletonName |-> a.SkeletonName, Repositories |-> <<>>]

\* what an invocation of `repository create` returned: before and fileBefore
\* are the disk and the configuration file it started with, created tells
\* whether the repository was created on disk without error
Returned(err, stage, created) ==
  [err |-> err, stage |-> stage, before |-> fs, fileBefore |-> configFile, created |-> created]

\* ConfigFlags.Complete: the configuration file is loaded into the options
configFlagsComplete(o, loaded) ==
  IF loaded.err # "" THEN [err |-> "failed to load config", opts |-> o]
  ELSE [err |-> "", opts |-> [o EXCEPT !.Repositories = loaded.repositories]]

\* CreateOptions.Complete once filepath.Abs has returned abs
repoCreateCompleted(o, a, abs, loaded) ==
  IF abs.err # "" THEN [err |-> abs.err, opts |-> [o EXCEPT !.RepoName = a.RepoName]]
  ELSE configFlagsComplete([o EXCEPT !.RepoName = a.RepoName, !.RepoDir = abs.path], loaded)

\* CreateOptions.Complete, called by RunE
RepoCreateComplete ==
  /\ pc = "start"
  /\ \E fault \in {"none", "getwd", "config"} :
       LET c == repoCreateCompleted(opts, args, Abs(args.Dir, fault # "getwd"),
                                    LoadConfig(configFile, fault # "config"))
       IN /\ opts' = c.opts
          /\ IF c.err # ""
             THEN pc' = "done" /\ outcome' = Returned(c.err, "complete", FALSE)
             ELSE pc' = "completed" /\ UNCHANGED outcome
  /\ UNCHANGED <<args, fs, configFile, earlier>>

validateOptions_Unchecked(o) == ""

\* CreateOptions.Validate
validateOptions(o) ==
  IF o.RepoName \in DOMAIN o.Repositories THEN "repository already exists" ELSE ""

\* CreateOptions.Validate, called by RunE when Complete returned no error
RepoCreateValidate ==
  /\ pc = "completed"
  /\ IF validateOptions(opts) # ""
     THEN pc' = "done" /\ outcome' = Returned(validateOptions(opts), "validate", FALSE)
     ELSE pc' = "validated" /\ UNCHANGED outcome
  /\ UNCHANGED <<args, opts, fs, configFile, earlier>>

\* the repositories of the configuration with the new one registered
registered(o) == (o.RepoName :> o.RepoDir) @@ o.Repositories

runRepoCreated_SavedAnyway(o, file, c, save) ==
  [err |-> IF c.err # "" THEN c.err ELSE SaveConfig(file, registered(o), save).err,
   disk |-> c.disk, repositories |-> registered(o),
   file |-> SaveConfig(file, registered(o), save).file, created |-> c.err = ""]

\* CreateOptions.Run once CreateWithSkeleton has returned c
runRepoCreated(o, file, c, save) ==
  IF c.err # ""
  THEN [err |-> c.err, disk |-> c.disk, repositories |-> o.Repositories, file |-> file,
        created |-> FALSE]
  ELSE [err |-> SaveConfig(file, registered(o), save).err, disk |-> c.disk,
        repositories |-> registered(o),
        file |-> SaveConfig(file, registered(o), save).file, created |-> TRUE]

\* CreateOptions.Run, called by RunE when Validate returned no error
RepoCreateRun ==
  /\ pc = "validated"
  /\ \E fault \in {"none", "mkdir", "skeleton", "save"} :
       LET r == runRepoCreated(opts, configFile,
                               CreateWithSkeleton(fs, opts.RepoDir, opts.SkeletonName, fault),
                               fault # "save")
       IN /\ fs' = r.disk
          /\ configFile' = r.file
          /\ opts' = [opts EXCEPT !.Repositories = r.repositories]
          /\ outcome' = Returned(r.err, "run", r.created)
  /\ pc' = "done"
  /\ UNCHANGED <<args, earlier>>

\* a path on the disk that is absolute, one that needs cleaning, one relative
\* to the working directory, one below a file, and the URL of a remote
\* repository
AbsDir == <<"/", "t", "/", "r">>

UncleanDir == <<"/", "t", "/", "/", "x", "/", ".", ".", "/", "r", "/">>

RelDir == <<"r">>

BelowFile == <<"/", "f", "/", "r">>

RemoteDir == <<"g", ":", "/", "/", "h", "/", "a">>

\* the arguments and flags of an invocation
CreateArguments ==
  { [RepoName |-> n, Dir |-> d, SkeletonName |-> DefaultSkeletonName] :
      n \in {"default", "new-repo"}, d \in {AbsDir, UncleanDir, RelDir, BelowFile, RemoteDir} }

\* the disk before the first invocation: the working directory, a directory
\* /t and a file /f, and possibly the directory /t/r
Disks ==
  LET base == (<<"/">> :> DirNode) @@ (Cwd :> DirNode) @@ (<<"/", "t">> :> DirNode)
              @@ (<<"/", "f">> :> FileNode(<<"f">>))
  IN {base, base @@ (AbsDir :> DirNode)}

\* the configuration file before the first invocation
ConfigFiles ==
  { [Repositories |-> r, writes |-> 0] :
      r \in { <<>>,
              "default" :> <<".", ".", "/", "r", "1">>,
              ("default" :> <<".", ".", "/", "r", "1">>) @@ ("new-repo" :> <<"/", "o">>),
              "other" :> <<"/", "%", "z", "z">> } }

RepoCreateInit ==
  /\ args \in CreateArguments
  /\ opts = createOptionsOf(args)
  /\ pc = "start"
  /\ fs \in Disks
  /\ configFile \in ConfigFiles
  /\ outcome = Nil
  /\ earlier = <<>>
  /\ gitInits = 0
  /\ home = HomeDir
  /\ locator = Nil /\ parseResult = Nil /\ strResult = Nil
  /\ repoCache = <<>> /\ repos = <<>> /\ calls = <<>>
  /\ procs = Nil /\ configs = Nil

\* the command is invoked a second time
RepoCreateAgain ==
  /\ pc = "done"
  /\ earlier = <<>>
  /\ earlier' = Append(earlier, [args |-> args, outcome |-> outcome])
  /\ \E a \in CreateArguments : args' = a /\ opts' = createOptionsOf(a)
  /\ pc' = "start"
  /\ outcome' = Nil
  /\ UNCHANGED <<fs, configFile>>

\* what `repository create` leaves alone
idleInRepoCreate ==
  <<home, locator, parseResult, strResult, repoCache, repos, calls, gitInits, procs, configs>>

RepoCreateNext ==
  \/ RepoCreateComplete /\ UNCHANGED idleInRepoCreate
  \/ RepoCreateValidate /\ UNCHANGED idleInRepoCreate
  \/ RepoCreateRun /\ UNCHANGED idleInRepoCreate
  \/ RepoCreateAgain /\ UNCHANGED idleInRepoCreate

SpecRepoCreate == RepoCreateInit /\ [][RepoCreateNext]_vars

\* ------------------------------------------------------------------------
\* Properties of `repository create`
\* ------------------------------------------------------------------------

\* the names of the repositories configured by a configuration file: its
\* keys, or the default repository when it has none
Configured(file) ==
  IF DOMAIN file.Repositories = {} THEN {"default"} ELSE DOMAIN file.Repositories

\* the configuration file the invocation started with could be loaded
Loadable(file) == "other" \notin DOMAIN file.Repositories

\* the absolute path each directory argument stands for
ExpectedDir(dir) ==
  CASE dir = AbsDir -> <<"/", "t", "/", "r">>
    [] dir = UncleanDir -> <<"/", "t", "/", "r">>
    [] dir = RelDir -> <<"/", "w", "/", "r">>
    [] dir = BelowFile -> <<"/", "f", "/", "r">>
    [] dir = RemoteDir -> <<"/", "w", "/", "g", ":", "/", "h", "/", "a">>

IsDirectory(disk, path) == path \in DOMAIN disk /\ disk[path].dir

\* the repository directory with the skeletons directory and the default
\* skeleton in it
RepositoryOnDisk(disk, dir) ==
  /\ IsDirectory(disk, dir)
  /\ IsDirectory(disk, dir \o <<"/">> \o SkeletonsDir)
  /\ IsDirectory(disk, dir \o <<"/">> \o SkeletonsDir \o <<"/">> \o DefaultSkeletonName)
  /\ (dir \o <<"/">> \o SkeletonsDir \o <<"/">> \o DefaultSkeletonName
          \o <<"/">> \o KickoffYaml) \in DOMAIN disk

\* C13: when the name is already a key of the configured repositories the
\* command returns an error and has done nothing: the disk is as it was, no
\* directory was created, and the configuration is unchanged in memory and
\* on disk, the file not written.
C13_ExistingNameRejected ==
  (pc = "done" /\ args.RepoName \in Configured(outcome.fileBefore)) =>
    /\ outcome.err # ""
    /\ (Loadable(outcome.fileBefore) /\ outcome.stage # "complete")
         => outcome.err = "repository already exists" /\ outcome.stage = "validate"
    /\ fs = outcome.before
    /\ configFile = outcome.fileBefore
    /\ ~outcome.created
    /\ outcome.stage # "complete" => DOMAIN opts.Repositories = Configured(outcome.fileBefore)

\* a repository is created as new-repo, and the command is run again with
\* that name and another directory: it fails and the directory is not made
C13_Witness ==
  /\ pc = "done" /\ earlier # <<>>
  /\ earlier[1].args.RepoName = "new-repo" /\ earlier[1].outcome.err = ""
  /\ earlier[1].args.Dir = AbsDir
  /\ args.RepoName = "new-repo" /\ args.Dir = RelDir
  /\ outcome.err = "repository already exists"
  /\ ExpectedDir(RelDir) \notin DOMAIN fs
  /\ configFile.writes = 1
  /\ configFile.Repositories["new-repo"] = ExpectedDir(AbsDir)

\* C14: when <dir> is the URL of a remote repository the command returns an
\* error and the name is not registered in the configuration.
C14_RemoteRejected ==
  (pc = "done" /\ IsRemote(ParseRepoRef(args.Dir).ref)) =>
    /\ outcome.err # ""
    /\ configFile = outcome.fileBefore

\* C15: with a name that is not configured yet, a command that returns no
\* error leaves the repository directory with the skeletons directory and the
\* default skeleton on disk, and has saved, once, the configuration it loaded
\* with the name mapped to the absolute directory; an error it returns is
\* never the already-exists error; and the configuration is changed, in
\* memory or on disk, only when the repository was created on disk without
\* error before.
C15_CreatesThenRegisters ==
  (pc = "done" /\ args.RepoName \notin Configured(outcome.fileBefore)) =>
    /\ outcome.err # "repository already exists"
    /\ outcome.err = "" =>
         /\ outcome.created
         /\ RepositoryOnDisk(fs, ExpectedDir(args.Dir))
         /\ configFile.writes = outcome.fileBefore.writes + 1
         /\ DOMAIN configFile.Repositories
              = Configured(outcome.fileBefore) \cup {args.RepoName}
         /\ configFile.Repositories[args.RepoName] = ExpectedDir(args.Dir)
         /\ \A n \in DOMAIN outcome.fileBefore.Repositories :
              configFile.Repositories[n] = outcome.fileBefore.Repositories[n]
    /\ (configFile # outcome.fileBefore
        \/ (outcome.stage # "complete" /\ args.RepoName \in DOMAIN opts.Repositories)) =>
         /\ outcome.created
         /\ RepositoryOnDisk(fs, ExpectedDir(args.Dir))

\* new-repo is created in a directory given relative to the working
\* directory, with a configuration file that had the default repository only
C15_Witness ==
  /\ pc = "done" /\ earlier = <<>>
  /\ args.RepoName = "new-repo" /\ args.Dir = RelDir
  /\ DOMAIN outcome.fileBefore.Repositories = {"default"}
  /\ outcome.err = ""
  /\ <<"/", "w", "/", "r">> \notin DOMAIN outcome.before
  /\ RepositoryOnDisk(fs, <<"/", "w", "/", "r">>)
  /\ configFile.writes = 1
  /\ configFile.Repositories["new-repo"] = <<"/", "w", "/", "r">>

\* ------------------------------------------------------------------------
\* Properties of `project create`: version control and the result
\* ------------------------------------------------------------------------

\* project.Create walked every entry and returned a result
CreatedProject ==
  /\ Walked /\ outcome.result # NoResult
  /\ Len(outcome.log) = Len(WalkEntries(outcome.merged, outcome.config))

\* C16: GitClient.Init is invoked at most once in an invocation, and only
\* after project creation returned without error, with --init-git set and
\* without --dry-run; when Init reports that the directory is a repository
\* already the command succeeds, any other error of Init is what the command
\* returns.
C16_InitAfterCreate ==
  pc = "done" =>
    /\ outcome.inits \in {0, 1}
    /\ outcome.inits = 1 =>
         /\ CreatedProject /\ outcome.stage = "git"
         /\ args.InitGit /\ ~args.DryRun
         /\ outcome.err = (IF outcome.initErr = "repository already exists" THEN ""
                           ELSE outcome.initErr)
    /\ outcome.inits = 0 => outcome.initErr = ""
    /\ gitInits = outcome.inits
         + (IF earlier # <<>> THEN earlier[1].outcome.inits ELSE 0)

\* the project is created with --init-git in a directory that is a git
\* repository already: Init is invoked and the command succeeds
C16_Witness ==
  /\ pc = "done" /\ args.InitGit /\ ~args.DryRun /\ args.Force
  /\ CreatedProject
  /\ outcome.inits = 1 /\ gitInits = 1
  /\ outcome.initErr = "repository already exists"
  /\ outcome.err = ""

\* the k-th smallest member of a set of numbers
Nth(set, k) == CHOOSE i \in set : Cardinality({j \in set : j < i}) = k - 1

\* the Entries of the result are the visits numbered in kept, in walk order,
\* each with its path and its action, and Stats counts the Entries by action
Accounts(kept) ==
  /\ Len(outcome.result.Entries) = Cardinality(kept)
  /\ \A k \in 1..Len(outcome.result.Entries) :
       /\ outcome.result.Entries[k].Path
            = WalkEntries(outcome.merged, outcome.config)[Nth(kept, k)].RelativePath
       /\ outcome.result.Entries[k].Action = outcome.log[Nth(kept, k)].action
       /\ outcome.result.Entries[k].Action \in ActionTypes
  /\ DOMAIN outcome.result.Stats = ActionTypes
  /\ \A a \in ActionTypes :
       outcome.result.Stats[a]
         = Cardinality({k \in 1..Len(outcome.result.Entries) :
                          outcome.result.Entries[k].Action = a})

\* the visits of directories that existed when they were visited
ExistingDirectories ==
  {i \in 1..Len(outcome.log) : outcome.log[i].dir /\ outcome.log[i].existed}

\* the visits of entries a --skip-file pattern matches
SkipMatched ==
  {i \in 1..Len(outcome.log) : Matches(outcome.log[i].path, args.SkipFiles)}

\* C19 as claimed: the result of a successful Create lists every visited
\* path but the directories that existed already, in walk order with its
\* action, and Stats counts the Entries by action.
C19_ExistingDirectoryNeverListed ==
  CreatedProject => Accounts((1..Len(outcome.log)) \ ExistingDirectories)

\* C19: the result of a successful Create lists, in walk order and with its
\* action, every visited path but the directories that existed already and
\* that no --skip-file pattern matches; Stats counts the Entries by action;
\* an existing directory that a --skip-file pattern matches is listed and
\* counted as Skip.
C19_ResultAccounts ==
  CreatedProject =>
    /\ Accounts((1..Len(outcome.log)) \ (ExistingDirectories \ SkipMatched))
    /\ \A i \in ExistingDirectories \cap SkipMatched : outcome.log[i].action = "Skip"

\* skeleton a is created over a project directory that holds dir already:
\* three entries are visited, two are listed
C19_Witness ==
  /\ CreatedProject /\ ~args.DryRun
  /\ args.SkeletonNames = <<"a">> /\ args.License = "" /\ args.SkipFiles = {}
  /\ outcome.before = ExistingFs
  /\ Len(outcome.log) = 3 /\ ExistingDirectories = {2}
  /\ Len(outcome.result.Entries) = 2
  /\ outcome.result.Entries[1].Path = Readme /\ outcome.result.Entries[2].Path = MainGo
  /\ outcome.result.Stats["Create"] + outcome.result.Stats["Overwrite"]
       + outcome.result.Stats["OverwriteFile"] + outcome.result.Stats["SkipExisting"] = 2

\* ------------------------------------------------------------------------
\* Concurrent calls of NewNamed
\* ------------------------------------------------------------------------

\* this many callers run NewNamed at the same time
MaxCallers == 2

Callers == 1..MaxCallers

\* the (name, locator) pairs the concurrent callers use
ConcurrentArgs == {<<<<"n">>, RemoteA>>, <<<<"m">>, RemoteA>>, <<<<"n">>, LocalHome>>,
                   <<<<"n">>, BadQuery>>}

\* a caller about to call NewNamed(name, url), url being the text of l;
\* stored holds the callers that had stored a repository for the same key
\* when this one looked the key up
CallerOf(name, l) ==
  [pc |-> "start", name |-> name, loc |-> l, key |-> cacheKey(name, RawURL(l)),
   hit |-> FALSE, fetched |-> FALSE, repo |-> NoRepo, err |-> "", stored |-> {}]

\* the callers that have stored a repository under key
StoredUnder(key) == {q \in Callers : procs[q].key = key /\ procs[q].pc = "stored"}

lookedUp_NeverHit(c, cached, stored) == [c EXCEPT !.pc = "missed", !.stored = stored]

\* NewNamed once the cache has answered cached: a hit is returned
lookedUp(c, cached, stored) ==
  IF cached.ok
  THEN [c EXCEPT !.pc = "hit", !.hit = TRUE, !.repo = cached.repo, !.stored = stored]
  ELSE [c EXCEPT !.pc = "missed", !.stored = stored]

\* repoCache.get(key), and the return of a cached repository
ConcurrentLookup(p) ==
  /\ procs[p].pc = "start"
  /\ procs' = [procs EXCEPT ![p] = lookedUp(@, repoCacheGet(@.key), StoredUnder(@.key))]
  /\ UNCHANGED <<repoCache, repos>>

\* NewNamed once ParseURL has returned parsed and, when it gave a reference,
\* the repository constructor has returned made
constructed(c, parsed, made, instance) ==
  IF parsed.err # "" THEN [c EXCEPT !.pc = "failed", !.err = parsed.err]
  ELSE IF made.err # ""
  THEN [c EXCEPT !.pc = "failed", !.err = made.err, !.fetched = made.fetched]
  ELSE [c EXCEPT !.pc = "made", !.fetched = made.fetched, !.repo = instance]

\* ParseURL and the repository constructor, which fetches a remote repository
ConcurrentConstruct(p) ==
  /\ procs[p].pc = "missed"
  /\ \E ok \in BOOLEAN :
       LET parsed == ParseURL(RawURL(procs[p].loc))
           made == newRepository([parsed.ref EXCEPT !.Name = procs[p].name], ok)
       IN /\ procs' = [procs EXCEPT ![p] = constructed(@, parsed, made, Len(repos) + 1)]
          /\ repos' = IF parsed.err = "" /\ made.err = "" THEN Append(repos, made.repo)
                      ELSE repos
  /\ UNCHANGED repoCache

\* repoCache.set(key, repo), and the return of the repository
ConcurrentStore(p) ==
  /\ procs[p].pc = "made"
  /\ repoCache' = cacheWith(procs[p].key, procs[p].repo)
  /\ procs' = [procs EXCEPT ![p].pc = "stored"]
  /\ UNCHANGED repos

ConcurrentInit ==
  /\ procs \in [Callers -> {CallerOf(a[1], a[2]) : a \in ConcurrentArgs}]
  /\ home = HomeDir
  /\ repoCache = <<>> /\ repos = <<>> /\ calls = <<>>
  /\ locator = Nil /\ parseResult = Nil /\ strResult = Nil
  /\ args = Nil /\ opts = Nil /\ pc = "" /\ fs = Nil
  /\ gitInits = 0 /\ outcome = Nil /\ earlier = Nil /\ configFile = Nil
  /\ configs = Nil

\* what the concurrent callers leave alone
idleInConcurrent ==
  <<home, locator, parseResult, strResult, calls, projectVars, configFile, configs>>

ConcurrentNext ==
  \/ \E p \in Callers : ConcurrentLookup(p) /\ UNCHANGED idleInConcurrent
  \/ \E p \in Callers : ConcurrentConstruct(p) /\ UNCHANGED idleInConcurrent
  \/ \E p \in Callers : ConcurrentStore(p) /\ UNCHANGED idleInConcurrent

SpecConcurrent == ConcurrentInit /\ [][ConcurrentNext]_vars

\* C20: a caller that looks a key up when no caller has stored a repository
\* under it misses the cache, whatever the other callers have begun, and a
\* caller that looks it up after a store hits and returns a stored instance
\* without fetching; every caller that missed parses and constructs its own
\* repository, fetching it when the reference is remote; so callers that
\* both missed and succeeded hold different instances, the fetch collaborator
\* having been invoked once for each of them, and the cache holds the
\* instance of one of them.
C20_LookupAndInsertNotAtomic ==
  \A p \in Callers :
    /\ (procs[p].pc # "start" /\ procs[p].stored = {}) => ~procs[p].hit
    /\ (procs[p].pc # "start" /\ procs[p].stored # {}) =>
         /\ procs[p].pc = "hit" /\ ~procs[p].fetched
         /\ \E q \in procs[p].stored : procs[p].repo = procs[q].repo
    /\ (procs[p].pc \in {"made", "stored"}) =>
         /\ procs[p].fetched <=> procs[p].loc.host # <<>>
         /\ procs[p].repo \in 1..Len(repos)
         /\ \A q \in Callers \ {p} :
              procs[q].pc \in {"made", "stored"} => procs[q].repo # procs[p].repo
    /\ procs[p].pc = "stored" =>
         \E q \in StoredUnder(procs[p].key) : repoCache[procs[p].key] = procs[q].repo

\* two callers of NewNamed("n", "g://h/a") on an empty cache both missed,
\* both fetched, and returned different instances
C20_Witness ==
  /\ procs[1].key = procs[2].key /\ procs[1].loc = RemoteA
  /\ procs[1].pc = "stored" /\ procs[2].pc = "stored"
  /\ ~procs[1].hit /\ ~procs[2].hit
  /\ procs[1].fetched /\ procs[2].fetched
  /\ procs[1].repo # procs[2].repo
  /\ procs[1].stored = {} /\ procs[2].stored = {}

\* ------------------------------------------------------------------------
\* `project create` into a directory that is there already
\* ------------------------------------------------------------------------

\* the project directory was there when the invocation began
DirectoryExisted == Exists(IF pc = "done" THEN outcome.before ELSE fs, <<>>)

\* C21: when the project directory exists and --force is not given, Complete
\* returns the "already exists" error and Run is never entered: the
\* invocation ends in Complete, no skeleton was loaded or merged,
\* project.Create visited nothing, the directory is as it was and
\* GitClient.Init was not called.
C21_ExistingDirectoryStops ==
  (DirectoryExisted /\ ~args.Force) =>
    /\ pc # "completed"
    /\ gitInits = 0
    /\ pc = "done" =>
         /\ outcome.err = "project dir already exists"
         /\ outcome.stage = "complete"
         /\ outcome.merged = Nil
         /\ outcome.config = Nil
         /\ outcome.log = <<>>
         /\ outcome.result = NoResult
         /\ outcome.inits = 0
         /\ fs = outcome.before

C21_Witness ==
  /\ pc = "done"
  /\ DirectoryExisted
  /\ ~args.Force
  /\ ~args.DryRun
  /\ args.InitGit
  /\ outcome.stage = "complete"
  /\ outcome.err = "project dir already exists"
  /\ fs = ExistingFs

\* ------------------------------------------------------------------------
\* `project create` with --values and --set
\* ------------------------------------------------------------------------

\* at most this many --values flags, and at most this many --set flags
MaxOverrides == 2

\* the sequences of at most n elements of S
RECURSIVE SeqsUpTo(_, _)
SeqsUpTo(S, n) ==
  IF n = 0 THEN {<<>>}
  ELSE SeqsUpTo(S, n - 1)
       \cup {Append(q, x) : q \in {r \in SeqsUpTo(S, n - 1) : Len(r) = n - 1}, x \in S}

OverrideArguments ==
  { [ProjectName |-> "p", SkeletonNames |-> <<"a">>, License |-> "", Gitignore |-> "",
     DryRun |-> dry, Force |-> FALSE, Overwrite |-> FALSE, OverwriteFiles |-> {},
     SkipFiles |-> {}, InitGit |-> FALSE, rawValues |-> raws, valuesFiles |-> files] :
      dry \in BOOLEAN, raws \in SeqsUpTo(DOMAIN RawValues, MaxOverrides),
      files \in SeqsUpTo(DOMAIN ValuesFiles, MaxOverrides) }

OverridesInit ==
  /\ args \in OverrideArguments
  /\ opts = optionsOf(args)
  /\ pc = "start"
  /\ fs \in {EmptyFs, ExistingFs}
  /\ gitInits = 0
  /\ outcome = Nil
  /\ earlier = <<>>
  /\ home = HomeDir
  /\ locator = Nil /\ parseResult = Nil /\ strResult = Nil
  /\ repoCache = <<>> /\ repos = <<>> /\ calls = <<>>
  /\ configFile = Nil /\ procs = Nil /\ configs = Nil

SpecOverrides == OverridesInit /\ [][ProjectNext]_vars

\* the levels values are given at, lowest first: the configuration, the
\* --values files as given, the --set expressions as given
Levels ==
  <<ConfigValues>>
  \o [i \in 1..Len(args.valuesFiles) |-> ValuesFiles[args.valuesFiles[i]]]
  \o [i \in 1..Len(args.rawValues) |-> RawValues[args.rawValues[i]]]

\* the highest level that gives key k
LastLevel(k) == Max({i \in 1..Len(Levels) : k \in DOMAIN Levels[i]})

\* project.Create was called in the invocation
HandedOver == pc = "done" /\ outcome.config # Nil

\* C22: the values handed to project.Create are the options' values, and they
\* hold exactly the keys given at some level; a key has the value of the
\* highest level that gives it (configuration below --values files in the
\* order given, below --set expressions in the order given). Where that
\* value is a map, the keys of the map have its values and keys that lower
\* levels put into a map under the same key are kept.
C22_OverridesInOrder ==
  /\ HandedOver => outcome.config.Values = opts.Values
  /\ (pc = "completed" \/ HandedOver) =>
       /\ DOMAIN opts.Values = UNION {DOMAIN Levels[i] : i \in 1..Len(Levels)}
       /\ \A k \in DOMAIN opts.Values :
            IF Levels[LastLevel(k)][k].kind = "scalar"
            THEN opts.Values[k] = Levels[LastLevel(k)][k]
            ELSE /\ opts.Values[k].kind = "map"
                 /\ \A y \in DOMAIN Levels[LastLevel(k)][k].m :
                      opts.Values[k].m[y] = Levels[LastLevel(k)][k].m[y]
       /\ (args.valuesFiles = <<"v2">> /\ args.rawValues = <<"m.y=2">>) =>
            opts.Values["m"] = Map(("x" :> Scalar(1)) @@ ("y" :> Scalar(2)))

C22_Witness ==
  /\ HandedOver
  /\ args.valuesFiles = <<"v2", "v1">>
  /\ args.rawValues = <<"lvl=6", "lvl=3">>
  /\ outcome.config.Values["lvl"] = Scalar(3)
  /\ outcome.config.Values["key"] = Scalar(7)
  /\ outcome.config.Values["m"] = Map("x" :> Scalar(1))

\* ------------------------------------------------------------------------
\* NewNamed calls that fail
\* ------------------------------------------------------------------------

\* the cache key of call i
KeyOf(i) == cacheKey(calls[i].name, RawURL(calls[i].loc))

\* call i constructed a repository and stored it
Resolved(i) == calls[i].err = "" /\ ~calls[i].hit

\* no call before j with the key of call j succeeded
NoneSucceededBefore(j) ==
  \A i \in 1..(j - 1) : KeyOf(i) = KeyOf(j) => calls[i].err # ""

\* C23: a call that returns an error changes neither the cache nor the
\* instances; a key is in the cache only with the instance a successful
\* resolution for that key constructed; and a call whose key no earlier call
\* succeeded for is not answered from the cache but parses the locator again.
C23_FailureNotCached ==
  /\ [](\A k \in DOMAIN repoCache :
          \E i \in CallIds : KeyOf(i) = k /\ Resolved(i) /\ calls[i].repo = repoCache[k])
  /\ [](\A j \in CallIds : NoneSucceededBefore(j) => (~calls[j].hit /\ calls[j].parsed))
  /\ [][(calls' # calls /\ calls'[Len(calls')].err # "")
         => (repoCache' = repoCache /\ repos' = repos)]_vars

\* a fetch fails, the same call is made again, fetches again and succeeds,
\* and a call with a locator that does not parse leaves no key behind
C23_Witness ==
  /\ Len(calls) = 3
  /\ KeyOf(1) = KeyOf(2)
  /\ calls[1].fetched /\ calls[1].err = "fetch failed"
  /\ calls[2].parsed /\ calls[2].fetched /\ calls[2].err = ""
  /\ calls[3].parsed /\ ~calls[3].made /\ calls[3].err # ""
  /\ DOMAIN repoCache = {KeyOf(1)}
  /\ repoCache[KeyOf(2)] = calls[2].repo

\* ------------------------------------------------------------------------
\* RepoRef.String parsed again
\* ------------------------------------------------------------------------

\* ParseRepoRef returned a remote reference, and its String was parsed
Reparsed ==
  /\ parseResult # Nil /\ strResult # Nil
  /\ parseResult.ref.err = ""
  /\ IsRemote(parseResult.ref.ref)

\* C24: parsing the String of a remote reference that ParseRepoRef returned
\* gives a reference with the same URL, Revision and Path.
C24_StringParsesBack ==
  Reparsed =>
    /\ strResult.err = ""
    /\ strResult.ref.URL = parseResult.ref.ref.URL
    /\ strResult.ref.Revision = parseResult.ref.ref.Revision
    /\ strResult.ref.Path = parseResult.ref.ref.Path

\* ------------------------------------------------------------------------
\* kickoff.Config and its defaults
\* ------------------------------------------------------------------------

\* a Go map: nil, or made and holding the entries m
GoMap(isNil, m) == [nil |-> isNil, m |-> m]

NilMap == GoMap(TRUE, <<>>)

\* len(x) of a map
len(x) == Cardinality(DOMAIN x.m)

\* kickoff.DefaultProjectHost
DefaultProjectHost == "github.com"

\* detectDefaultProjectOwner(): what the git configuration of the user gives,
\* the empty string when it names no user
GitOwners == {"", "o"}

\* ProjectConfig.ApplyDefaults
ProjectApplyDefaults(p, owner) ==
  [Host |-> IF p.Host = "" THEN DefaultProjectHost ELSE p.Host,
   Owner |-> IF p.Owner = "" THEN owner ELSE p.Owner,
   License |-> IF p.License = NoLicense THEN "" ELSE p.License,
   Gitignore |-> IF p.Gitignore = NoGitignore THEN "" ELSE p.Gitignore]

\* Config.ApplyDefaults: c.Repositories once a nil map is replaced
madeRepositories(c) == IF c.Repositories.nil THEN GoMap(FALSE, <<>>) ELSE c.Repositories

withDefaultRepository_Always(repositories) ==
  GoMap(FALSE, (DefaultRepositoryName :> DefaultRepositoryURL) @@ repositories.m)

\* Config.ApplyDefaults: the default repository is put into an empty map
withDefaultRepository(repositories) ==
  IF len(repositories) = 0
  THEN GoMap(FALSE, (DefaultRepositoryName :> DefaultRepositoryURL) @@ repositories.m)
  ELSE repositories

\* Config.ApplyDefaults: c.Values once a nil map is replaced
madeValues(c) == IF c.Values.nil THEN GoMap(FALSE, NoValues) ELSE c.Values

\* Config.ApplyDefaults, with what the git configuration gives for the owner
ConfigApplyDefaults(c, owner) ==
  [Project |-> ProjectApplyDefaults(c.Project, owner),
   Repositories |-> withDefaultRepository(madeRepositories(c)),
   Values |-> madeValues(c)]

\* at most this many calls of ApplyDefaults on one Config
MaxApplies == 2

\* the Config values Load decodes from a file
DecodedConfigs ==
  { [Project |-> p, Repositories |-> r, Values |-> v] :
      p \in { [Host |-> "", Owner |-> "", License |-> "", Gitignore |-> ""],
              [Host |-> "", Owner |-> "", License |-> NoLicense, Gitignore |-> NoGitignore],
              ConfigProject },
      r \in {NilMap} \cup {GoMap(FALSE, f.Repositories) : f \in ConfigFiles},
      v \in {NilMap, GoMap(FALSE, NoValues), GoMap(FALSE, ConfigValues)} }

\* the Config as it is now
CurrentConfig == configs[Len(configs)]

\* LoadConfig: the decoded Config is validated, then ApplyDefaults is called
LoadConfigApplies ==
  /\ Len(configs) = 1
  /\ validateConfig(CurrentConfig.Repositories.m) = ""
  /\ \E owner \in GitOwners :
       configs' = Append(configs, ConfigApplyDefaults(CurrentConfig, owner))

\* ApplyDefaults is called on the Config, validated or not
ApplyDefaultsCalled ==
  /\ Len(configs) <= MaxApplies
  /\ \E owner \in GitOwners :
       configs' = Append(configs, ConfigApplyDefaults(CurrentConfig, owner))

DefaultsInit ==
  /\ configs \in {<<c>> : c \in DecodedConfigs}
  /\ home = HomeDir
  /\ locator = Nil /\ parseResult = Nil /\ strResult = Nil
  /\ repoCache = <<>> /\ repos = <<>> /\ calls = <<>>
  /\ args = Nil /\ opts = Nil /\ pc = "" /\ fs = Nil
  /\ gitInits = 0 /\ outcome = Nil /\ earlier = Nil
  /\ configFile = Nil /\ procs = Nil

\* what ApplyDefaults leaves alone
idleInDefaults ==
  <<home, locator, parseResult, strResult, repoCache, repos, calls, projectVars,
    configFile, procs>>

DefaultsNext ==
  \/ LoadConfigApplies /\ UNCHANGED idleInDefaults
  \/ ApplyDefaultsCalled /\ UNCHANGED idleInDefaults

SpecDefaults == DefaultsInit /\ [][DefaultsNext]_vars

\* the positions in configs that a call of ApplyDefaults left
Applied == 2..Len(configs)

\* C25: where ApplyDefaults has been called, Repositories is made and not
\* empty and Values is made; Values holds what it held; a Config that had
\* repositories has exactly those, one that had none has exactly the default
\* repository; and a further call leaves Repositories and Values as they are.
C25_DefaultsApplied ==
  \A i \in Applied :
    /\ ~configs[i].Repositories.nil
    /\ len(configs[i].Repositories) > 0
    /\ ~configs[i].Values.nil
    /\ configs[i].Values.m = configs[i - 1].Values.m
    /\ len(configs[i - 1].Repositories) > 0
         => configs[i].Repositories = configs[i - 1].Repositories
    /\ len(configs[i - 1].Repositories) = 0
         => configs[i].Repositories.m = (DefaultRepositoryName :> DefaultRepositoryURL)
    /\ i - 1 \in Applied
         => /\ configs[i].Repositories = configs[i - 1].Repositories
            /\ configs[i].Values = configs[i - 1].Values

\* a Config decoded without repositories and values gets the default
\* repository and an empty Values; a second call changes neither, though it
\* finds an owner the first did not
C25_Witness ==
  /\ Len(configs) = 3
  /\ configs[1].Repositories.nil /\ configs[1].Values.nil
  /\ configs[2].Repositories = GoMap(FALSE, DefaultRepositoryName :> DefaultRepositoryURL)
  /\ configs[2].Values = GoMap(FALSE, NoValues)
  /\ configs[3].Repositories = configs[2].Repositories
  /\ configs[3].Values = configs[2].Values
  /\ configs[2].Project.Owner = "" /\ configs[3].Project.Owner = "o"

====
